---- MODULE Spec2Model ----
(***************************************************************************)
(* Changelogger: the changelog-construction pipeline of the example bot.   *)
(*                                                                         *)
(* A string is a sequence of one-character strings, so that the regular    *)
(* expressions, toLowerCase/toUpperCase, trim and localeCompare of the     *)
(* TypeScript source are computed character by character.                  *)
(***************************************************************************)
EXTENDS Integers, Sequences, FiniteSets, TLC

(***************************************************************************)
(* Characters and strings                                                  *)
(***************************************************************************)
LowerAlpha ==
    << "a", "b", "c", "d", "e", "f", "g", "h", "i", "j", "k", "l", "m",
       "n", "o", "p", "q", "r", "s", "t", "u", "v", "w", "x", "y", "z" >>

UpperAlpha ==
    << "A", "B", "C", "D", "E", "F", "G", "H", "I", "J", "K", "L", "M",
       "N", "O", "P", "Q", "R", "S", "T", "U", "V", "W", "X", "Y", "Z" >>

\* \d of the regular expressions
Digit == { "0", "1", "2", "3", "4", "5", "6", "7", "8", "9" }

\* \s of the regular expressions, and what trim() removes: the white space
\* of ASCII, which is the space, the tab, the line feed, the vertical tab
\* (U+000B, written as the character itself), the form feed and the carriage
\* return.  The white space of JavaScript outside ASCII (U+00A0, U+FEFF,
\* U+1680, U+2000 to U+200A, U+2028, U+2029, U+202F, U+205F, U+3000) is
\* outside the characters of this module.
WhiteSpace == { " ", "\t", "\n", "", "\f", "\r" }

AlphaIndex(alpha, c) == CHOOSE i \in 1..Len(alpha) : alpha[i] = c

\* the lower-case letter of each upper-case letter, and the converse
LowerOf ==
    [c \in { UpperAlpha[i] : i \in 1..Len(UpperAlpha) } |->
        LowerAlpha[AlphaIndex(UpperAlpha, c)]]

UpperOf ==
    [c \in { LowerAlpha[i] : i \in 1..Len(LowerAlpha) } |->
        UpperAlpha[AlphaIndex(LowerAlpha, c)]]

toLowerCaseChar(c) == IF c \in DOMAIN LowerOf THEN LowerOf[c] ELSE c

toUpperCaseChar(c) == IF c \in DOMAIN UpperOf THEN UpperOf[c] ELSE c

Range(s) == { s[i] : i \in 1..Len(s) }

\* String.prototype.toLowerCase
toLowerCase(s) == [i \in 1..Len(s) |-> toLowerCaseChar(s[i])]

\* String.prototype.startsWith
startsWith(s, p) == Len(s) >= Len(p) /\ SubSeq(s, 1, Len(p)) = p

\* String.prototype.includes
includes(s, k) ==
    \E i \in 0..(Len(s) - Len(k)) : SubSeq(s, i + 1, i + Len(k)) = k

\* the index of the first character at or after p that is not in class
\* (Len(s) + 1 when there is none): a greedy class* of a regular expression
skipClass(s, p, class) ==
    CHOOSE q \in p..(Len(s) + 1) :
        /\ \A j \in p..(q - 1) : s[j] \in class
        /\ q = Len(s) + 1 \/ s[q] \notin class

\* String.prototype.trim
trim(s) ==
    LET a == skipClass(s, 1, WhiteSpace)
    IN  IF a = Len(s) + 1
        THEN << >>
        ELSE LET b == CHOOSE q \in a..Len(s) :
                          /\ s[q] \notin WhiteSpace
                          /\ \A j \in (q + 1)..Len(s) : s[j] \in WhiteSpace
             IN  SubSeq(s, a, b)

(***************************************************************************)
(* Words of the source                                                     *)
(***************************************************************************)
W_breaking == << "b", "r", "e", "a", "k", "i", "n", "g" >>
W_feature == << "f", "e", "a", "t", "u", "r", "e" >>
W_enhancement == << "e", "n", "h", "a", "n", "c", "e", "m", "e", "n", "t" >>
W_feat == << "f", "e", "a", "t" >>
W_bug == << "b", "u", "g" >>
W_fix == << "f", "i", "x" >>
W_hotfix == << "h", "o", "t", "f", "i", "x" >>
W_perf == << "p", "e", "r", "f" >>
W_performance == << "p", "e", "r", "f", "o", "r", "m", "a", "n", "c", "e" >>
W_doc == << "d", "o", "c" >>
W_docs == << "d", "o", "c", "s" >>
W_documentation ==
    << "d", "o", "c", "u", "m", "e", "n", "t", "a", "t", "i", "o", "n" >>
W_refactor == << "r", "e", "f", "a", "c", "t", "o", "r" >>
W_chore == << "c", "h", "o", "r", "e" >>
W_ci == << "c", "i" >>
W_build == << "b", "u", "i", "l", "d" >>
W_test == << "t", "e", "s", "t" >>
W_style == << "s", "t", "y", "l", "e" >>

(***************************************************************************)
(* categorize                                                              *)
(***************************************************************************)
Category == { "breaking", "features", "fixes", "performance", "docs", "other" }

\* /^word[class]/i.test(title)
testPrefix(title, word, class) ==
    /\ Len(title) > Len(word)
    /\ toLowerCase(SubSeq(title, 1, Len(word))) = word
    /\ title[Len(word) + 1] \in class

\* l.some((x) => keys.some((k) => x.includes(k)))
someIncludes(l, keys) ==
    \E i \in 1..Len(l) : \E k \in keys : includes(l[i], k)

\* the features rule is tried before the breaking rule
categorize_featuresFirst(title, labels) ==
    LET l == [i \in 1..Len(labels) |-> toLowerCase(labels[i])]
        cls == WhiteSpace \cup { "(", ":" }
    IN  IF \/ someIncludes(l, { W_feature, W_enhancement, W_feat })
           \/ testPrefix(title, W_feat, cls)
        THEN "features"
        ELSE IF \/ someIncludes(l, { W_breaking })
                \/ testPrefix(title, W_breaking, cls \cup { "!" })
        THEN "breaking"
        ELSE IF \/ someIncludes(l, { W_bug, W_fix, W_hotfix })
                \/ testPrefix(title, W_fix, cls)
        THEN "fixes"
        ELSE IF \/ someIncludes(l, { W_perf, W_performance })
                \/ testPrefix(title, W_perf, cls)
        THEN "performance"
        ELSE IF \/ someIncludes(l, { W_doc, W_documentation })
                \/ testPrefix(title, W_docs, cls)
                \/ testPrefix(title, W_doc, cls)
        THEN "docs"
        ELSE "other"

categorize(title, labels) ==
    LET l == [i \in 1..Len(labels) |-> toLowerCase(labels[i])]
        cls == WhiteSpace \cup { "(", ":" }
    IN  IF \/ someIncludes(l, { W_breaking })
           \/ testPrefix(title, W_breaking, cls \cup { "!" })
        THEN "breaking"
        ELSE IF \/ someIncludes(l, { W_feature, W_enhancement, W_feat })
                \/ testPrefix(title, W_feat, cls)
        THEN "features"
        ELSE IF \/ someIncludes(l, { W_bug, W_fix, W_hotfix })
                \/ testPrefix(title, W_fix, cls)
        THEN "fixes"
        ELSE IF \/ someIncludes(l, { W_perf, W_performance })
                \/ testPrefix(title, W_perf, cls)
        THEN "performance"
        ELSE IF \/ someIncludes(l, { W_doc, W_documentation })
                \/ testPrefix(title, W_docs, cls)
                \/ testPrefix(title, W_doc, cls)
        THEN "docs"
        ELSE "other"

(***************************************************************************)
(* cleanTitle                                                              *)
(***************************************************************************)
\* the alternation of the prefix expression, in its order; docs? is greedy,
\* so docs is tried before doc
TYPES ==
    << W_feat, W_fix, W_docs, W_doc, W_perf, W_refactor, W_chore, W_ci,
       W_build, W_test, W_style, W_breaking >>

\* (\([^)]*\))? tried after the first p characters: the length it takes
scopeLen(s, p) ==
    IF /\ p + 1 <= Len(s)
       /\ s[p + 1] = "("
       /\ \E j \in (p + 2)..Len(s) : s[j] = ")"
    THEN (CHOOSE j \in (p + 2)..Len(s) :
              s[j] = ")" /\ \A k \in (p + 2)..(j - 1) : s[k] # ")") - p
    ELSE 0

\* [:\s!]+ tried after the first p characters: the length it takes (0: fails)
sepLen(s, p) == skipClass(s, p + 1, WhiteSpace \cup { ":", "!" }) - (p + 1)

\* the length of the match of the prefix expression with alternative i
\* (0: no match); the optional scope is tried first, then skipped
prefixLenWith(s, i) ==
    LET n == Len(TYPES[i])
    IN  IF ~(Len(s) >= n /\ toLowerCase(SubSeq(s, 1, n)) = TYPES[i])
        THEN 0
        ELSE LET sc == scopeLen(s, n)
             IN  IF sc > 0 /\ sepLen(s, n + sc) > 0
                 THEN n + sc + sepLen(s, n + sc)
                 ELSE IF sepLen(s, n) > 0
                 THEN n + sepLen(s, n)
                 ELSE 0

\* /^(feat|fix|docs?|...|breaking)(\([^)]*\))?[:\s!]+/i: the length matched
prefixLen(s) ==
    IF \E i \in 1..Len(TYPES) : prefixLenWith(s, i) > 0
    THEN prefixLenWith(s, CHOOSE i \in 1..Len(TYPES) :
                              /\ prefixLenWith(s, i) > 0
                              /\ \A j \in 1..(i - 1) : prefixLenWith(s, j) = 0)
    ELSE 0

\* /\s*\(#\d+\)\s*$/ matches s from its character i on
backRefAt(s, i) ==
    LET a == skipClass(s, i, WhiteSpace)
    IN  /\ a + 1 <= Len(s)
        /\ s[a] = "("
        /\ s[a + 1] = "#"
        /\ LET d == skipClass(s, a + 2, Digit)
           IN  /\ d > a + 2
               /\ d <= Len(s)
               /\ s[d] = ")"
               /\ skipClass(s, d + 1, WhiteSpace) = Len(s) + 1

\* .replace(/\s*\(#\d+\)\s*$/, ""): the leftmost match is removed
stripBackRef(s) ==
    IF \E i \in 1..Len(s) : backRefAt(s, i)
    THEN SubSeq(s, 1, (CHOOSE i \in 1..Len(s) :
                           /\ backRefAt(s, i)
                           /\ \A j \in 1..(i - 1) : ~backRefAt(s, j)) - 1)
    ELSE s

cleanTitle(raw) ==
    LET t == trim(stripBackRef(SubSeq(raw, prefixLen(raw) + 1, Len(raw))))
    IN  IF t = << >>
        THEN << >>
        ELSE << toUpperCaseChar(t[1]) >> \o Tail(t)

(***************************************************************************)
(* ghFetch                                                                 *)
(*                                                                         *)
(* An upstream outcome is either a rejected fetch (network = FALSE) or a   *)
(* response [status, remaining, reset, text, parses, json]; an absent      *)
(* header is the empty string, and parses tells whether the body is JSON.  *)
(***************************************************************************)
DigitSeq == << "0", "1", "2", "3", "4", "5", "6", "7", "8", "9" >>

digitValue(c) == (CHOOSE i \in 1..Len(DigitSeq) : DigitSeq[i] = c) - 1

\* parseInt(ds, 10) of a non-empty run of digits
RECURSIVE parseInt(_)
parseInt(ds) ==
    IF ds = << >>
    THEN 0
    ELSE 10 * parseInt(SubSeq(ds, 1, Len(ds) - 1)) + digitValue(ds[Len(ds)])

\* res.ok
ok(res) == res.status >= 200 /\ res.status <= 299

\* the value ghFetch resolves with, or the Error it rejects with; the last
\* rejection is that of res.json() on a body that is not JSON
ghFetch(res) ==
    IF ~res.network
    THEN [ok |-> FALSE, error |-> [kind |-> "fetch", causes |-> { }]]
    ELSE IF res.status = 403 /\ res.remaining = << "0" >>
    THEN [ok |-> FALSE,
          error |-> [kind |-> "rate_limit", causes |-> { },
                     at |-> IF res.reset # << >>
                            THEN << parseInt(res.reset) * 1000 >>
                            ELSE << >>]]
    ELSE IF res.status = 404
    THEN [ok |-> FALSE,
          error |-> [kind |-> "not_found", causes |-> { "repo", "refs" }]]
    ELSE IF ~ok(res)
    THEN [ok |-> FALSE,
          error |-> [kind |-> "api", causes |-> { },
                     status |-> res.status, text |-> res.text]]
    ELSE IF ~res.parses
    THEN [ok |-> FALSE, error |-> [kind |-> "json", causes |-> { }]]
    ELSE [ok |-> TRUE, value |-> res.json]

(***************************************************************************)
(* REST generateChangelog: the steps of the handler                        *)
(***************************************************************************)
\* (message || "").split("\n")[0]
firstLine(msg) == SubSeq(msg, 1, skipClass(msg, 1, { c \in Range(msg) : c # "\n" }) - 1)

\* x is appended whether or not it is there already
setAdd_always(seq, x) == Append(seq, x)

\* seq with x appended unless it is there already (Set.add, insertion order kept)
setAdd(seq, x) == IF x \in Range(seq) THEN seq ELSE Append(seq, x)

\* the numbers of msg.matchAll(/#(\d+)/g), from the match that starts at or
\* after position p on, added to the set acc
RECURSIVE addRefs(_, _, _)
addRefs(acc, msg, p) ==
    IF \E i \in p..(Len(msg) - 1) : msg[i] = "#" /\ msg[i + 1] \in Digit
    THEN LET i == CHOOSE i \in p..(Len(msg) - 1) :
                      /\ msg[i] = "#" /\ msg[i + 1] \in Digit
                      /\ \A j \in p..(i - 1) :
                             ~(msg[j] = "#" /\ msg[j + 1] \in Digit)
             d == skipClass(msg, i + 1, Digit)
         IN  addRefs(setAdd(acc, parseInt(SubSeq(msg, i + 1, d - 1))), msg, d)
    ELSE acc

\* step 2: prNums, in insertion order, over the commits from index k on
RECURSIVE prNumsFrom(_, _, _)
prNumsFrom(acc, commits, k) ==
    IF k > Len(commits)
    THEN acc
    ELSE prNumsFrom(addRefs(acc, commits[k].message, 1), commits, k + 1)

\* step 1: the CommitData of one commit of the compare response
CommitData(c) ==
    [message |-> firstLine(c.message),
     authorLogin |-> c.login,
     authorName |-> IF c.name # << >> THEN c.name ELSE << "U", "n", "k", "n", "o", "w", "n" >>]

\* the size of one batch of pull-request lookups
BatchSize == 15

\* every number that is left is taken into the batch
batchOf_allLeft(nums, i) == SubSeq(nums, i + 1, Len(nums))

\* nums.slice(i, i + 15)
batchOf(nums, i) ==
    SubSeq(nums, i + 1, IF i + BatchSize < Len(nums) THEN i + BatchSize ELSE Len(nums))

\* merged_at is not looked at
lookup_unmergedKept(res) ==
    LET r == ghFetch(res)
    IN  IF ~r.ok
        THEN [status |-> "rejected"]
        ELSE [status |-> "fulfilled",
              value |-> << [number |-> r.value.number,
                            title |-> r.value.title,
                            author |-> IF r.value.login # << >>
                                       THEN r.value.login
                                       ELSE << "u", "n", "k", "n", "o", "w", "n" >>,
                            labels |-> r.value.labels] >>]

\* what one lookup of a batch settles with: rejected, fulfilled with null,
\* or fulfilled with the PRData
lookup(res) ==
    LET r == ghFetch(res)
    IN  IF ~r.ok
        THEN [status |-> "rejected"]
        ELSE IF ~r.value.merged
        THEN [status |-> "fulfilled", value |-> << >>]
        ELSE [status |-> "fulfilled",
              value |-> << [number |-> r.value.number,
                            title |-> r.value.title,
                            author |-> IF r.value.login # << >>
                                       THEN r.value.login
                                       ELSE << "u", "n", "k", "n", "o", "w", "n" >>,
                            labels |-> r.value.labels] >>]

\* one rejected lookup discards the whole batch
pushFulfilled_allOrNothing(acc, batch, res, k) ==
    IF \E j \in 1..Len(batch) : res[batch[j]].status = "rejected"
    THEN acc
    ELSE LET F[i \in 0..Len(batch)] ==
                 IF i = 0 THEN acc ELSE F[i - 1] \o res[batch[i]].value
         IN  F[Len(batch)]

\* the fulfilled results are pushed in the order of their numbers, not in
\* the order of the batch
pushFulfilled_byNumber(acc, batch, res, k) ==
    LET byNumber == [m \in 1..Len(batch) |->
                        CHOOSE n \in Range(batch) :
                            Cardinality({ x \in Range(batch) : x < n }) = m - 1]
        F[i \in 0..Len(batch)] ==
            IF i = 0
            THEN acc
            ELSE LET r == res[byNumber[i]]
                 IN  IF r.status = "fulfilled" THEN F[i - 1] \o r.value ELSE F[i - 1]
    IN  F[Len(batch)]

\* for (const r of results) if (r.status === "fulfilled" && r.value) prs.push
RECURSIVE pushFulfilled(_, _, _, _)
pushFulfilled(acc, batch, res, k) ==
    IF k > Len(batch)
    THEN acc
    ELSE LET r == res[batch[k]]
         IN  pushFulfilled(
                 IF r.status = "fulfilled" /\ r.value # << >>
                 THEN acc \o r.value
                 ELSE acc,
                 batch, res, k + 1)

\* no commit is taken for a merge commit
isMerge_never(c) == FALSE

isMerge(c) == startsWith(c.message, << "M", "e", "r", "g", "e", " " >>)

\* step 4: the entries
buildEntries(prList, commits) ==
    IF Len(prList) > 0
    THEN [i \in 1..Len(prList) |->
             [category |-> categorize(prList[i].title, prList[i].labels),
              title |-> cleanTitle(prList[i].title),
              prNumber |-> prList[i].number,
              author |-> prList[i].author]]
    ELSE LET kept == SelectSeq(commits, LAMBDA c : ~isMerge(c))
         IN  [i \in 1..Len(kept) |->
                 [category |-> categorize(kept[i].message, << >>),
                  title |-> cleanTitle(kept[i].message),
                  author |-> IF kept[i].authorLogin # << >>
                             THEN kept[i].authorLogin
                             ELSE kept[i].authorName]]

RECURSIVE addAll(_, _, _)
addAll(acc, items, k) ==
    IF k > Len(items) THEN acc ELSE addAll(setAdd(acc, items[k]), items, k + 1)

\* step 4: the contributors set, in insertion order
buildContributors(prList, commits) ==
    IF Len(prList) > 0
    THEN addAll(<< >>, [i \in 1..Len(prList) |-> prList[i].author], 1)
    ELSE LET kept == SelectSeq(commits,
                         LAMBDA c : ~isMerge(c) /\ c.authorLogin # << >>)
         IN  addAll(<< >>, [i \in 1..Len(kept) |-> kept[i].authorLogin], 1)

otherCount(es) == Len(SelectSeq(es, LAMBDA e : e.category = "other"))

\* the refinement is also called at 60%
refineGuard_atLeast(es) == 10 * otherCount(es) >= 6 * Len(es) /\ Len(es) > 5

\* step 5: otherCount > entries.length * 0.6 && entries.length > 5
refineGuard(es) == 10 * otherCount(es) > 6 * Len(es) /\ Len(es) > 5

\* new Map(refined.map(...)): a later pair of one title replaces an earlier one
catMapGet(returned, title) ==
    returned[CHOOSE i \in 1..Len(returned) :
                /\ returned[i].title = title
                /\ \A j \in (i + 1)..Len(returned) : returned[j].title # title].category

catMapHas(returned, title) == \E i \in 1..Len(returned) : returned[i].title = title

\* every entry whose title was returned is overwritten, whatever its category
applyRefined_anyCategory(es, returned) ==
    [i \in 1..Len(es) |->
        IF catMapHas(returned, es[i].title)
        THEN [es[i] EXCEPT !.category = catMapGet(returned, es[i].title)]
        ELSE es[i]]

\* step 5: the categories the refinement overwrites
applyRefined(es, returned) ==
    [i \in 1..Len(es) |->
        IF es[i].category = "other" /\ catMapHas(returned, es[i].title)
        THEN [es[i] EXCEPT !.category = catMapGet(returned, es[i].title)]
        ELSE es[i]]

(***************************************************************************)
(* Rendering                                                               *)
(*                                                                         *)
(* The returned markdown is the sequence of its lines (the handler joins   *)
(* them with "\n"); a line is a record of its kind and of the values the   *)
(* template interpolates.  An empty segment of a template is << >>.        *)
(***************************************************************************)
\* the collation of localeCompare (the root collation of ICU) over ASCII:
\* white space, then punctuation and symbols in the order of the collation,
\* then digits, then letters.  The grave accent, between "%" and "^", is not
\* a character a string of this module can hold.  The control characters
\* that are no white space (U+0000 to U+0008, U+000E to U+001F, U+007F) have
\* no weight: the collation ignores them.
Collation ==
    << "\t", "\n", "", "\f", "\r", " ",
       "_", "-", ",", ";", ":", "!", "?", ".", "'", "\"", "(", ")", "[", "]",
       "{", "}", "@", "*", "/", "\\", "&", "#", "%", "^", "+", "<", "=",
       ">", "|", "~", "$" >>
    \o DigitSeq \o LowerAlpha

RankOf == [c \in Range(Collation) |-> AlphaIndex(Collation, c)]

\* the primary weight of a character: a letter has that of its lower case,
\* a character the collation ignores has 0
collationRank(c) ==
    IF toLowerCaseChar(c) \in DOMAIN RankOf THEN RankOf[toLowerCaseChar(c)] ELSE 0

\* a.localeCompare(b): negative, zero or positive.  The characters without
\* weight are passed over; the primary weights decide at the first place they
\* differ, then the length; strings that differ in case only are ordered at
\* the first such place, lower case first
localeCompare(a, b) ==
    LET x == SelectSeq(a, LAMBDA c : collationRank(c) # 0)
        y == SelectSeq(b, LAMBDA c : collationRank(c) # 0)
        m == IF Len(x) < Len(y) THEN Len(x) ELSE Len(y)
        diff == { i \in 1..m : collationRank(x[i]) # collationRank(y[i]) }
        cased == { i \in 1..m : x[i] # y[i] }
    IN  IF diff # { }
        THEN LET i == CHOOSE i \in diff : \A j \in diff : i <= j
             IN  IF collationRank(x[i]) < collationRank(y[i]) THEN -1 ELSE 1
        ELSE IF Len(x) < Len(y) THEN -1
        ELSE IF Len(x) > Len(y) THEN 1
        ELSE IF cased = { } THEN 0
        ELSE LET i == CHOOSE i \in cased : \A j \in cased : i <= j
             IN  IF x[i] \in DOMAIN UpperOf THEN -1 ELSE 1

\* the operands of the comparison are swapped
compareHandles_swapped(a, b) == localeCompare(toLowerCase(b), toLowerCase(a))

\* the comparator of the contributors sort
compareHandles(a, b) == localeCompare(toLowerCase(a), toLowerCase(b))

\* Array.prototype.sort is stable: x goes after every element not above it
insertSorted(sorted, x) ==
    LET k == Cardinality({ i \in 1..Len(sorted) : compareHandles(sorted[i], x) <= 0 })
    IN  SubSeq(sorted, 1, k) \o << x >> \o SubSeq(sorted, k + 1, Len(sorted))

RECURSIVE sortFrom(_, _, _)
sortFrom(acc, items, k) ==
    IF k > Len(items)
    THEN acc
    ELSE sortFrom(insertSorted(acc, items[k]), items, k + 1)

\* [...contributors].sort((a, b) => a.toLowerCase().localeCompare(b.toLowerCase()))
sortHandles(items) == sortFrom(<< >>, items, 1)

\* the fixes section is listed before the features section
SECTIONS_fixesFirst ==
    << [key |-> "breaking", heading |-> "Breaking Changes"],
       [key |-> "fixes", heading |-> "Bug Fixes"],
       [key |-> "features", heading |-> "New Features"],
       [key |-> "performance", heading |-> "Performance"],
       [key |-> "docs", heading |-> "Documentation"],
       [key |-> "other", heading |-> "Other Changes"] >>

SECTIONS ==
    << [key |-> "breaking", heading |-> "Breaking Changes"],
       [key |-> "features", heading |-> "New Features"],
       [key |-> "fixes", heading |-> "Bug Fixes"],
       [key |-> "performance", heading |-> "Performance"],
       [key |-> "docs", heading |-> "Documentation"],
       [key |-> "other", heading |-> "Other Changes"] >>

Blank == [kind |-> "blank"]

\* `- ${title}${pr}${by}`: pr holds the number of the link, by the handle
\* after " by @"; an empty segment is << >>
entryLine(text, e) ==
    [kind |-> "entry",
     title |-> text,
     pr |-> IF "prNumber" \in DOMAIN e /\ e.prNumber # 0
            THEN << e.prNumber >>
            ELSE << >>,
     by |-> IF "author" \in DOMAIN e /\ e.author # << >>
            THEN << e.author >>
            ELSE << >>]

\* the head of the document: title, blank, range heading, blank
headLines(toRef) ==
    << [kind |-> "h1"], Blank,
       [kind |-> "h2", title |-> IF toRef = "HEAD" THEN "Unreleased" ELSE toRef],
       Blank >>

\* the footer: rule, blank, compare link, contributors line if any
\* Array.prototype.join
RECURSIVE join(_, _)
join(items, sep) ==
    IF Len(items) = 0 THEN << >>
    ELSE IF Len(items) = 1 THEN items[1]
    ELSE items[1] \o sep \o join(Tail(items), sep)

\* sorted.map((c) => `@${c}`).join(", ")
mentions(sorted) ==
    join([i \in 1..Len(sorted) |-> << "@" >> \o sorted[i]], << ",", " " >>)

footLines(contributors) ==
    << [kind |-> "rule"], Blank, [kind |-> "compare"] >>
    \o (IF Len(contributors) > 0
        THEN LET sorted == sortHandles(contributors)
             IN  << [kind |-> "contributors", handles |-> sorted,
                     text |-> mentions(sorted)] >>
        ELSE << >>)

\* the list of a category is extended at its head
grouped_newestFirst(es, key) ==
    LET items == SelectSeq(es, LAMBDA e : e.category = key)
    IN  [i \in 1..Len(items) |-> items[Len(items) + 1 - i]]

\* the list of a category is overwritten instead of extended
grouped_overwritten(es, key) ==
    LET items == SelectSeq(es, LAMBDA e : e.category = key)
    IN  IF Len(items) > 1 THEN << items[Len(items)] >> ELSE items

\* grouped.get(key)
grouped(es, key) == SelectSeq(es, LAMBDA e : e.category = key)

\* one turn of the section loop of the REST handler
sectionLines(es, sec) ==
    LET items == grouped(es, sec.key)
    IN  IF Len(items) = 0
        THEN << >>
        ELSE << [kind |-> "section", key |-> sec.key, heading |-> sec.heading],
                Blank >>
             \o [i \in 1..Len(items) |-> entryLine(items[i].title, items[i])]
             \o << Blank >>

RECURSIVE sectionsFrom(_, _)
sectionsFrom(es, k) ==
    IF k > Len(SECTIONS)
    THEN << >>
    ELSE sectionLines(es, SECTIONS[k]) \o sectionsFrom(es, k + 1)

\* the flag is assigned, not raised, in each turn: the last section decides
hasEntries_lastSection(es) == Len(grouped(es, SECTIONS[Len(SECTIONS)].key)) # 0

\* hasEntries after the section loop of the REST handler
hasEntries(es) == \E k \in 1..Len(SECTIONS) : Len(grouped(es, SECTIONS[k].key)) # 0

\* step 6 of the REST handler: the lines it joins and returns
render(toRef, es, contributors, total, nCommits, nPrs) ==
    LET body == sectionsFrom(es, 1)
    IN  headLines(toRef)
        \o body
        \o (IF ~hasEntries(es)
            THEN << [kind |-> "placeholder",
                     text |-> "_No categorized changes found._"], Blank >>
            ELSE << >>)
        \o footLines(contributors)
        \o << [kind |-> "stats",
               commits |-> IF total # 0 THEN total ELSE nCommits,
               pulls |-> nPrs] >>

(***************************************************************************)
(* Browser generateChangelog                                               *)
(***************************************************************************)
\* getPageContent: the length of the string it returns; -1 stands for the
\* undefined that JSON.stringify(undefined) gives.  A page is a record of
\* the lengths of its string fields ("string": the page is itself a string).
getPageContent(pages) ==
    IF pages = << >>
    THEN -1
    ELSE LET r == pages[1]
         IN  IF "string" \in DOMAIN r THEN r.string
             ELSE IF "content" \in DOMAIN r THEN r.content
             ELSE IF "markdown" \in DOMAIN r THEN r.markdown
             ELSE IF "text" \in DOMAIN r THEN r.text
             ELSE IF "body" \in DOMAIN r THEN r.body
             ELSE r.json

\* the shortest page content the browser handler hands to the extraction
MinContent == 100

\* a content of exactly 100 characters is refused as well
contentTooShort_atMost(len) == len <= MinContent

\* !content || content.length < 100
contentTooShort(len) == len <= 0 \/ len < MinContent

\* one turn of the section loop of formatMarkdown
dataSectionLines(data, sec) ==
    LET items == data[sec.key]
    IN  IF Len(items) = 0
        THEN << >>
        ELSE << [kind |-> "section", key |-> sec.key, heading |-> sec.heading],
                Blank >>
             \o [i \in 1..Len(items) |-> entryLine(items[i].description, items[i])]
             \o << Blank >>

RECURSIVE dataSectionsFrom(_, _)
dataSectionsFrom(data, k) ==
    IF k > Len(SECTIONS)
    THEN << >>
    ELSE dataSectionLines(data, SECTIONS[k]) \o dataSectionsFrom(data, k + 1)

\* hasEntries after the section loop of formatMarkdown
dataHasEntries(data) == \E k \in 1..Len(SECTIONS) : Len(data[SECTIONS[k].key]) # 0

formatMarkdown(toRef, data) ==
    LET body == dataSectionsFrom(data, 1)
    IN  headLines(toRef)
        \o body
        \o (IF ~dataHasEntries(data)
            THEN << [kind |-> "placeholder",
                     text |-> "_No categorized changes found in this range._"],
                    Blank >>
            ELSE << >>)
        \o footLines(data.contributors)
        \o << [kind |-> "stats", commits |-> data.totalCommits] >>

\* the message returned when the compare page could not be read
failureLines ==
    << [kind |-> "failure", causes |-> { "repo", "refs" }] >>

(***************************************************************************)
(* Inputs: what the upstream collaborators can answer                      *)
(***************************************************************************)
M_fixCrash == <<"f", "i", "x", ":", " ", "c", "r", "a", "s", "h", " ", "o", "n", " ", "e", "m", "p", "t", "y", " ", "c", "a", "r", "t", " ", "(", "#", "2", ")", " ", "(", "#", "1", ")">>
M_choreTest == <<"c", "h", "o", "r", "e", ":", " ", "t", "e", "s", "t", ":", " ", "a", "d", "d", " ", "u", "n", "i", "t", " ", "t", "e", "s", "t", "s">>
T_wishlist == <<"f", "e", "a", "t", ":", " ", "a", "d", "d", " ", "w", "i", "s", "h", "l", "i", "s", "t">>
H_zack == <<"z", "a", "c", "k">>
H_Alice == <<"A", "l", "i", "c", "e">>
H_bob == <<"b", "o", "b">>
L_enhancement == <<"e", "n", "h", "a", "n", "c", "e", "m", "e", "n", "t">>

\* the longest varied commit list of a compare response
MaxCommits == 2

\* the longest classification the refinement collaborator returns
MaxRefined == 2

\* the longest contributors array the extraction returns, but for the one
\* of ContributorLists
MaxContributors == 2

BoundedSeq(S, n) == UNION { [1..k -> S] : k \in 0..n }

ToRefs == { "HEAD", "v2.0.0" }

\* commits of a compare response: [message, login (c.author?.login),
\* name (c.commit?.author?.name)]
\* "feat(auth): add OAuth login (#1)"
K_feat ==
    [message |-> <<"f", "e", "a", "t", "(", "a", "u", "t", "h", ")", ":", " ", "a", "d", "d", " ", "O", "A", "u", "t", "h", " ", "l", "o", "g", "i", "n", " ", "(", "#", "1", ")">>,
     login |-> H_Alice, name |-> H_Alice]
K_fix == [message |-> M_fixCrash, login |-> H_bob, name |-> H_bob]
\* "Merge pull request #2 from dev/wishlist"
K_merge ==
    [message |-> <<"M", "e", "r", "g", "e", " ", "p", "u", "l", "l", " ", "r", "e", "q", "u", "e", "s", "t", " ", "#", "2", " ", "f", "r", "o", "m", " ", "d", "e", "v", "/", "w", "i", "s", "h", "l", "i", "s", "t">>,
     login |-> H_zack, name |-> H_zack]
K_chore == [message |-> M_choreTest, login |-> H_zack, name |-> H_zack]
\* "bump deps\n\nsee #1"
K_bump ==
    [message |-> <<"b", "u", "m", "p", " ", "d", "e", "p", "s", "\n", "\n", "s", "e", "e", " ", "#", "1">>,
     login |-> << >>, name |-> <<"C", "a", "r", "o", "l", " ", "D">>]
K_cleanup == [message |-> <<"c", "l", "e", "a", "n", "u", "p">>, login |-> << >>, name |-> << >>]
\* "Rework session store"
K_rework ==
    [message |-> <<"R", "e", "w", "o", "r", "k", " ", "s", "e", "s", "s", "i", "o", "n", " ", "s", "t", "o", "r", "e">>,
     login |-> H_Alice, name |-> H_Alice]
\* "perf: cache tags"
K_perf ==
    [message |-> <<"p", "e", "r", "f", ":", " ", "c", "a", "c", "h", "e", " ", "t", "a", "g", "s">>,
     login |-> H_bob, name |-> H_bob]

CommitPool == { K_feat, K_fix, K_merge, K_chore, K_bump, K_cleanup }

\* "sync #3 #4 ... #17 #3": fifteen pull requests, a whole batch of lookups,
\* the first of them referenced twice
K_rollup ==
    [message |-> << "s", "y", "n", "c" >>
                 \o << " ", "#", "3" >> \o << " ", "#", "4" >> \o << " ", "#", "5" >>
                 \o << " ", "#", "6" >> \o << " ", "#", "7" >> \o << " ", "#", "8" >>
                 \o << " ", "#", "9" >> \o << " ", "#", "1", "0" >>
                 \o << " ", "#", "1", "1" >> \o << " ", "#", "1", "2" >>
                 \o << " ", "#", "1", "3" >> \o << " ", "#", "1", "4" >>
                 \o << " ", "#", "1", "5" >> \o << " ", "#", "1", "6" >>
                 \o << " ", "#", "1", "7" >> \o << " ", "#", "3" >>,
     login |-> H_Alice, name |-> H_Alice]

\* longer ranges: six entries of which five are "other"; five, all "other"
LongRanges ==
    { << K_chore, K_cleanup, K_perf, K_cleanup, K_chore, K_cleanup >>,
      << K_chore, K_cleanup, K_rework, K_chore, K_cleanup >> }

\* the wide ranges of a comparison with ref.  Up to the release v2.0.0: a
\* range whose seventeen references fill a batch of lookups and start a
\* second.  Up to HEAD: ranges of ten entries of which seven, six and five
\* are "other".
WideRanges(ref) ==
    IF ref = "v2.0.0" THEN { << K_rollup, K_fix >> } ELSE
    { << K_chore, K_cleanup, K_perf, K_cleanup, K_chore, K_perf, K_cleanup,
         K_cleanup, K_perf, K_chore >>,
      << K_chore, K_perf, K_perf, K_cleanup, K_chore, K_perf, K_cleanup,
         K_cleanup, K_perf, K_chore >>,
      << K_chore, K_perf, K_perf, K_cleanup, K_perf, K_perf, K_cleanup,
         K_cleanup, K_perf, K_chore >> }

CommitLists == BoundedSeq(CommitPool, MaxCommits) \cup LongRanges


Response(status, remaining, reset, json) ==
    [network |-> TRUE, status |-> status, remaining |-> remaining,
     reset |-> reset, text |-> "body", parses |-> TRUE, json |-> json]

\* the answers that make ghFetch reject; the last is a 200 whose body is no
\* JSON
ErrorResponses(none) ==
    { [network |-> FALSE, status |-> 0, remaining |-> << >>, reset |-> << >>,
       text |-> "", parses |-> FALSE, json |-> none],
      [network |-> TRUE, status |-> 200, remaining |-> << >>, reset |-> << >>,
       text |-> "<html>", parses |-> FALSE, json |-> none],
      Response(404, << >>, << >>, none),
      Response(403, << "0" >>, << "1", "7" >>, none),
      Response(403, << "0" >>, << >>, none),
      Response(403, << "5" >>, << >>, none),
      Response(500, << >>, << >>, none) }

\* total_commits counts the range, or is absent (0) in the answers of at
\* most one commit; the answer is that of the comparison with ref
CompareResponses(ref) ==
    ErrorResponses([commits |-> << >>, total_commits |-> 0])
    \cup { Response(200, << >>, << >>, [commits |-> cs, total_commits |-> 7]) :
               cs \in CommitLists }
    \cup { Response(200, << >>, << >>, [commits |-> cs, total_commits |-> 0]) :
               cs \in { c \in CommitLists : Len(c) <= 1 } }
    \cup { Response(200, << >>, << >>, [commits |-> cs, total_commits |-> 12]) :
               cs \in WideRanges(ref) }

NoPull ==
    [number |-> 0, title |-> << >>, login |-> << >>, labels |-> << >>,
     merged |-> FALSE]

Pull(n, title, login, labels, merged) ==
    [number |-> n, title |-> title, login |-> login, labels |-> labels,
     merged |-> merged]

\* the pull requests whose lookup is answered in every way, and the one
\* that is merged or unknown; every other number is unknown upstream
VariedPulls == { 1, 2 }

MergedOrUnknownPulls == { 3 }

\* the answers to GET /repos/{owner}/{repo}/pulls/{n}
PullResponses(n) ==
    IF n \notin VariedPulls \cup MergedOrUnknownPulls
    THEN { Response(404, << >>, << >>, NoPull) }
    ELSE IF n \in MergedOrUnknownPulls
    THEN { Response(404, << >>, << >>, NoPull),
           Response(200, << >>, << >>,
                    Pull(n, T_wishlist, H_zack, << L_enhancement >>, TRUE)) }
    ELSE
    { Response(404, << >>, << >>, NoPull),
      Response(403, << "0" >>, << "1", "7" >>, NoPull) }
    \cup { Response(200, << >>, << >>, b) :
               b \in { Pull(n, T_wishlist, H_zack, << L_enhancement >>, TRUE),
                       Pull(n, <<"f", "i", "x", ":", " ", "n", "u", "l", "l", " ", "p", "o", "i", "n", "t", "e", "r", " ", "o", "n", " ", "e", "m", "p", "t", "y", " ", "c", "a", "r", "t">>, H_Alice, << <<"b", "u", "g">> >>, TRUE),
                       Pull(n, M_choreTest, << >>, << >>, TRUE),
                       Pull(n, T_wishlist, H_zack, << >>, FALSE) } }

\* the categories the classification returned is drawn from: one the
\* commits of the ranges have, one they have not, and "other"
RefinedCategories == { "performance", "fixes", "other" }

\* what adk.zai.extract can answer in step 5: it throws, or returns pairs
\* whose category the schema restricts to the six
RefineOutcomes(es) ==
    LET titles == { es[i].title : i \in 1..Len(es) } \cup { <<"N", "o", "t", " ", "a", " ", "t", "i", "t", "l", "e">> }
        pairs == [title : titles, category : RefinedCategories]
    IN  { [throws |-> TRUE, refined |-> << >>] }
        \cup { [throws |-> FALSE, refined |-> r] : r \in BoundedSeq(pairs, MaxRefined) }

\* what actions.browser.browsePages can answer: it throws, or returns pages
BrowseOutcomes ==
    { [throws |-> TRUE, pages |-> << >>] }
    \cup { [throws |-> FALSE, pages |-> ps] :
               ps \in { << >>,
                        << [string |-> 0] >>,
                        << [string |-> 99] >>,
                        << [string |-> 100] >>,
                        << [content |-> 2000, json |-> 2030] >>,
                        << [markdown |-> 40, text |-> 900, json |-> 990] >>,
                        << [json |-> 2] >> } }

E_wishlist == [description |-> <<"A", "d", "d", " ", "w", "i", "s", "h", "l", "i", "s", "t">>, prNumber |-> 11, author |-> H_zack]
E_typo == [description |-> <<"F", "i", "x", " ", "t", "y", "p", "o">>]

\* the contributors arrays of the extraction: the short ones, zack, Alice,
\* bob, handles with the hyphen, the underscore and the brackets of a bot,
\* and a handle that begins with the control character U+0001
ContributorLists ==
    BoundedSeq({ H_Alice, H_bob }, MaxContributors)
    \cup { << H_zack, H_Alice, H_bob >>,
            << << "a", "-", "b" >>, << "a", "_", "b" >>, << "A", "b" >> >>,
            << << "d", "e", "p", "[", "b", "o", "t", "]" >>,
               << "d", "e", "p", "-", "x", "[", "b", "o", "t", "]" >> >>,
            << << "", "b" >>, << "a" >>, << "a", "-", "1" >> >> }

\* what adk.zai.extract can answer in the browser handler
ExtractOutcomes ==
    { [throws |-> TRUE] }
    \cup { [throws |-> FALSE,
            data |-> [breaking |-> b, features |-> f, fixes |-> x,
                      performance |-> p, docs |-> d, other |-> o,
                      contributors |-> c, totalCommits |-> t]] :
               b \in { << >>, << E_typo >> }, f \in { << >>, << E_wishlist, E_typo >> },
               x \in { << >>, << E_wishlist >> },
               \* "Bump", to which the extraction gave the number 0 and an
               \* empty author
               p \in { << >>,
                       << [description |-> << "B", "u", "m", "p" >>, prNumber |-> 0,
                           author |-> << >>] >> },
               d \in { << >>, << E_wishlist >> }, o \in { << >>, << E_typo >> },
               c \in ContributorLists, t \in { 0, 3 } }

(***************************************************************************)
(* State                                                                   *)
(***************************************************************************)
VARIABLES
    variant,       \* which generateChangelog runs: "rest" or "browser"
    pc,            \* where the handler is: start, lookup, refine, extract,
                   \* done (it returned lines), thrown (it rejected with error)
    toRef,         \* the toRef input
    compareCommits,\* REST: compare.commits, as the comparison returned them
    commits,       \* REST: the CommitData list
    total,         \* REST: compare.total_commits (0: absent)
    nums,          \* REST: the pull-request numbers, in insertion order
    batchStart,    \* REST: i of the batch loop
    inflight,      \* REST: the lookups of the batch that have not settled
    settled,       \* REST: what each lookup settled with, and the response
                   \* it was answered with
    prs,           \* REST: the PRData pushed so far
    entries,       \* REST: the ChangeEntry list
    contributors,  \* REST: the contributors set, in insertion order
    zaiCalls,      \* the calls of adk.zai.extract made
    refined,       \* REST: the classification adk.zai.extract returned
    content,       \* browser: the length of the page content
    data,          \* browser: the ChangelogData extracted
    lines,         \* the lines of the returned string
    error,         \* the Error the handler rejected with
    rawTitle,      \* the title handed to cleanTitle and categorize
    rawLabels,     \* the labels handed to categorize
    cleaned,       \* the results of cleanTitle: of rawTitle, then of that
    category,      \* the result of categorize ("": not called yet)
    response,      \* the response handed to ghFetch
    outcome,       \* what ghFetch resolved or rejected with
    fetches,       \* the calls of fetch that ghFetch made
    listVariant,   \* which listTags runs: "rest" or "browser"
    listPc,        \* where listTags is: start, releases (it awaits their
                   \* extraction), tags, tagsExtract, done, thrown
    requests,      \* listTags: the listings requested so far, in order
    releasesRes,   \* listTags: what the releases request was answered with
    tagsRes,       \* listTags: what the tags request was answered with
    releases,      \* listTags: the releases parsed or extracted
    tags,          \* listTags: the tags parsed or extracted
    listLines,     \* listTags: the lines of the returned string
    listError      \* listTags: what the handler rejected with

handlerVars ==
    << variant, pc, toRef, compareCommits, commits, total, nums, batchStart, inflight, settled,
       prs, entries, contributors, zaiCalls, refined, content, data, lines,
       error >>

pureVars == << rawTitle, rawLabels, cleaned, category, response, outcome, fetches >>

tagsVars ==
    << listVariant, listPc, requests, releasesRes, tagsRes, releases, tags,
       listLines, listError >>

vars == << handlerVars, pureVars, tagsVars >>

\* ghFetch is not called on its own
NoFetch ==
    /\ response = [network |-> FALSE]
    /\ outcome = << >>
    /\ fetches = 0

\* listTags has not been called, or is about to run as variant v
TagsIdle(v) ==
    /\ listVariant = v
    /\ listPc = "start"
    /\ requests = << >>
    /\ releasesRes = << >>
    /\ tagsRes = << >>
    /\ releases = << >>
    /\ tags = << >>
    /\ listLines = << >>
    /\ listError = ""

\* no handler has started
HandlerIdle(v, ref) ==
    /\ variant = v
    /\ pc = "start"
    /\ toRef = ref
    /\ compareCommits = << >>
    /\ commits = << >>
    /\ total = 0
    /\ nums = << >>
    /\ batchStart = 0
    /\ inflight = { }
    /\ settled = << >>
    /\ prs = << >>
    /\ entries = << >>
    /\ contributors = << >>
    /\ zaiCalls = 0
    /\ refined = << >>
    /\ content = 0
    /\ data = [breaking |-> << >>, features |-> << >>, fixes |-> << >>,
               performance |-> << >>, docs |-> << >>, other |-> << >>,
               contributors |-> << >>, totalCommits |-> 0]
    /\ lines = << >>
    /\ error = [kind |-> "none", causes |-> { }]

Init ==
    /\ \E v \in { "rest", "browser" } : \E ref \in ToRefs : HandlerIdle(v, ref)
    /\ rawTitle = << >>
    /\ rawLabels = << >>
    /\ cleaned = << >>
    /\ category = ""
    /\ NoFetch
    /\ TagsIdle("none")

(***************************************************************************)
(* REST generateChangelog.handler                                          *)
(***************************************************************************)
\* steps 4 to 6, run once the last batch has settled: the handler either
\* awaits the refinement or renders and returns
AfterBatches(prList, cs, tot) ==
    LET es == buildEntries(prList, cs)
        co == buildContributors(prList, cs)
    IN  /\ prs' = prList
        /\ entries' = es
        /\ contributors' = co
        /\ IF refineGuard(es)
           THEN /\ pc' = "refine"
                /\ zaiCalls' = zaiCalls + 1
                /\ lines' = lines
           ELSE /\ pc' = "done"
                /\ zaiCalls' = zaiCalls
                /\ lines' = render(toRef, es, co, tot, Len(cs), Len(prList))

\* steps 1 to 3: the compare request is answered; the handler rejects, or
\* maps the commits, extracts the numbers and starts the first batch
Compare(res) ==
    /\ LET r == ghFetch(res)
       IN  IF ~r.ok
           THEN /\ pc' = "thrown"
                /\ error' = r.error
                /\ UNCHANGED << compareCommits, commits, total, nums, batchStart,
                                inflight, settled, prs, entries, contributors,
                                zaiCalls, lines >>
           ELSE LET cs == [i \in 1..Len(r.value.commits) |->
                              CommitData(r.value.commits[i])]
                    ns == prNumsFrom(<< >>, r.value.commits, 1)
                IN  /\ compareCommits' = r.value.commits
                    /\ commits' = cs
                    /\ total' = r.value.total_commits
                    /\ nums' = ns
                    /\ error' = error
                    /\ IF Len(ns) > 0
                       THEN /\ pc' = "lookup"
                            /\ batchStart' = 0
                            /\ inflight' = Range(batchOf(ns, 0))
                            /\ UNCHANGED << settled, prs, entries, contributors,
                                            zaiCalls, lines >>
                       ELSE /\ AfterBatches(<< >>, cs, r.value.total_commits)
                            /\ UNCHANGED << batchStart, inflight, settled >>
    /\ UNCHANGED << variant, toRef, refined, content, data >>

FetchCompare ==
    /\ variant = "rest"
    /\ pc = "start"
    /\ \E res \in CompareResponses(toRef) : Compare(res)
    /\ UNCHANGED << pureVars, tagsVars >>

\* step 3: the lookup of pull request n settles; with the last one of the
\* batch Promise.allSettled resolves, the fulfilled values are pushed and
\* the next batch starts or, after the last batch, the handler goes on
Settle(n, res) ==
    /\ LET st == (n :> (lookup(res) @@ [response |-> res])) @@ settled
           left == inflight \ { n }
           batch == batchOf(nums, batchStart)
           next == batchStart + BatchSize
       IN  IF left # { }
           THEN /\ settled' = st
                /\ inflight' = left
                /\ UNCHANGED << pc, batchStart, prs, entries, contributors,
                                zaiCalls, lines >>
           ELSE IF next < Len(nums)
           THEN /\ prs' = pushFulfilled(prs, batch, st, 1)
                /\ batchStart' = next
                /\ inflight' = Range(batchOf(nums, next))
                /\ settled' = st
                /\ UNCHANGED << pc, entries, contributors, zaiCalls, lines >>
           ELSE /\ AfterBatches(pushFulfilled(prs, batch, st, 1), commits, total)
                /\ inflight' = { }
                /\ settled' = st
                /\ batchStart' = batchStart
    /\ UNCHANGED << variant, toRef, compareCommits, commits, total, nums, refined,
                    content, data, error >>

\* the lookups of a batch settle in any order
SettleLookup ==
    /\ variant = "rest"
    /\ pc = "lookup"
    /\ \E n \in inflight : \E res \in PullResponses(n) : Settle(n, res)
    /\ UNCHANGED << pureVars, tagsVars >>

\* step 5 and 6: adk.zai.extract answers; the handler rejects, or overwrites
\* the categories, renders and returns
Refine(out) ==
    /\ IF out.throws
       THEN /\ pc' = "thrown"
            /\ error' = [kind |-> "zai", causes |-> { }]
            /\ UNCHANGED << entries, refined, lines >>
       ELSE LET es == applyRefined(entries, out.refined)
            IN  /\ pc' = "done"
                /\ refined' = out.refined
                /\ entries' = es
                /\ lines' = render(toRef, es, contributors, total, Len(commits),
                                   Len(prs))
                /\ error' = error
    /\ UNCHANGED << variant, toRef, compareCommits, commits, total, nums,
                    batchStart, inflight, settled, prs, contributors, zaiCalls, content, data >>

RefineCategories ==
    /\ variant = "rest"
    /\ pc = "refine"
    /\ \E out \in RefineOutcomes(entries) : Refine(out)
    /\ UNCHANGED << pureVars, tagsVars >>

(***************************************************************************)
(* Browser generateChangelog.handler                                       *)
(***************************************************************************)
\* browsePages answers: the handler rejects, returns the failure message,
\* or calls the extraction
Browse(out) ==
    /\ IF out.throws
       THEN /\ pc' = "thrown"
            /\ error' = [kind |-> "browser", causes |-> { }]
            /\ UNCHANGED << content, zaiCalls, lines >>
       ELSE LET len == getPageContent(out.pages)
            IN  /\ content' = len
                /\ error' = error
                /\ IF contentTooShort(len)
                   THEN /\ pc' = "done"
                        /\ lines' = failureLines
                        /\ zaiCalls' = zaiCalls
                   ELSE /\ pc' = "extract"
                        /\ lines' = lines
                        /\ zaiCalls' = zaiCalls + 1
    /\ UNCHANGED << variant, toRef, compareCommits, commits, total, nums,
                    batchStart, inflight, settled, prs, entries, contributors,
                    refined, data >>

BrowseComparePage ==
    /\ variant = "browser"
    /\ pc = "start"
    /\ \E out \in BrowseOutcomes : Browse(out)
    /\ UNCHANGED << pureVars, tagsVars >>

\* adk.zai.extract answers: the handler rejects, or formats and returns
Extract(out) ==
    /\ IF out.throws
       THEN /\ pc' = "thrown"
            /\ error' = [kind |-> "zai", causes |-> { }]
            /\ UNCHANGED << data, lines >>
       ELSE /\ pc' = "done"
            /\ data' = out.data
            /\ lines' = formatMarkdown(toRef, out.data)
            /\ error' = error
    /\ UNCHANGED << variant, toRef, compareCommits, commits, total, nums,
                    batchStart, inflight, settled, prs, entries, contributors,
                    zaiCalls, refined, content >>

ExtractChangelog ==
    /\ variant = "browser"
    /\ pc = "extract"
    /\ \E out \in ExtractOutcomes : Extract(out)
    /\ UNCHANGED << pureVars, tagsVars >>

Next ==
    \/ FetchCompare
    \/ SettleLookup
    \/ RefineCategories
    \/ BrowseComparePage
    \/ ExtractChangelog

Spec == Init /\ [][Next]_vars

(***************************************************************************)
(* cleanTitle and categorize on their own: the inputs are drawn from       *)
(* titles put together from fragments, and from short lists of labels      *)
(***************************************************************************)
TypeFragments ==
    { << >>,
      <<"f", "e", "a", "t">>,
      <<"F", "i", "x">>,
      <<"d", "o", "c", "s">>,
      <<"d", "o", "c">>,
      <<"c", "h", "o", "r", "e">>,
      <<"b", "r", "e", "a", "k", "i", "n", "g">>,
      <<"f", "e", "a", "t", "u", "r", "e">> }

ScopeFragments ==
    { << >>,
      <<"(", "u", "i", ")">>,
      <<"(", "u", "i">> }

SeparatorFragments ==
    { << >>,
      <<":">>,
      <<" ">>,
      <<"!">>,
      <<":", "\r">>,
      <<"">>,
      <<":", " ">>,
      <<"!", ":", " ">>,
      <<":", " ", "!">>,
      <<":", ":", " ">> }

BodyFragments ==
    { << >>,
      <<"x">>,
      <<"a", "d", "d", " ", "A", "P", "I">>,
      <<"f", "i", "x", ":", " ", "y">> }

TrailerFragments ==
    { << >>,
      <<" ", "(", "#", "4", "2", ")">>,
      <<" ", "(", "#", "4", ")", " ", "(", "#", "5", ")">>,
      <<" ", "(", "#", ")">>,
      <<" ", "(", "#", "4", "2", ")", "\r">>,
      <<"", "(", "#", "1", ")", "">> }


TitleInputs ==
    { t \o s \o p \o b \o r :
          t \in TypeFragments, s \in ScopeFragments, p \in SeparatorFragments,
          b \in BodyFragments, r \in TrailerFragments }
    \cup { <<"f", "e", "a", "t", "(", "a", "u", "t", "h", ")", ":", " ", "a", "d", "d", " ", "O", "A", "u", "t", "h", " ", "l", "o", "g", "i", "n", " ", "(", "#", "4", "2", ")">>, <<"f", "i", "x", ":", " ", "!", "i", "m", "p", "o", "r", "t", "a", "n", "t", " ", "r", "u", "l", "e", " ", "i", "g", "n", "o", "r", "e", "d">>, M_choreTest, M_fixCrash }

WordFragments ==
    { << >>,
      <<"b", "r", "e", "a", "k", "i", "n", "g">>,
      <<"B", "r", "e", "a", "k", "i", "n", "g">>,
      <<"f", "e", "a", "t">>,
      <<"F", "E", "A", "T">>,
      <<"f", "i", "x">>,
      <<"p", "e", "r", "f">>,
      <<"d", "o", "c">>,
      <<"d", "o", "c", "s">>,
      <<"c", "h", "o", "r", "e">>,
      <<"f", "e", "a", "t", "u", "r", "e">>,
      <<"f", "i", "x", "e", "s">> }

FollowFragments ==
    { << >>,
      <<" ">>,
      <<"(">>,
      <<":">>,
      <<"!">>,
      <<"x">>,
      <<"\r">>,
      <<"\f", "x">>,
      <<"", "c">>,
      <<":", " ", "r", "e", "m", "o", "v", "e", " ", "l", "e", "g", "a", "c", "y", " ", "A", "P", "I">> }

CategorizeTitles == { w \o f : w \in WordFragments, f \in FollowFragments }


LabelPool ==
    { L_enhancement, <<"B", "u", "g">>, <<"B", "R", "E", "A", "K", "I", "N", "G", "-", "c", "h", "a", "n", "g", "e">>, <<"w", "o", "n", "t", "f", "i", "x">>, <<"q", "u", "e", "s", "t", "i", "o", "n">>, <<"D", "o", "c", "u", "m", "e", "n", "t", "a", "t", "i", "o", "n">>,
      <<"P", "e", "r", "f", "o", "r", "m", "a", "n", "c", "e">> }

\* the longest list of labels
MaxLabels == 2

\* no handler runs
NoHandler == HandlerIdle("none", "HEAD")

InitNormalize ==
    /\ NoHandler
    /\ rawTitle \in TitleInputs
    /\ rawLabels = << >>
    /\ cleaned = << >>
    /\ category = ""
    /\ NoFetch
    /\ TagsIdle("none")

\* cleanTitle is applied: to the raw title, then to its own result
Normalize ==
    /\ variant = "none"
    /\ Len(cleaned) < 2
    /\ cleaned' = Append(cleaned,
                         cleanTitle(IF cleaned = << >>
                                    THEN rawTitle
                                    ELSE cleaned[Len(cleaned)]))
    /\ UNCHANGED << handlerVars, tagsVars, rawTitle, rawLabels, category, response, outcome,
                    fetches >>

SpecNormalize == InitNormalize /\ [][Normalize]_vars

InitCategorize ==
    /\ NoHandler
    /\ rawTitle \in CategorizeTitles
    /\ rawLabels \in BoundedSeq(LabelPool, MaxLabels)
    /\ cleaned = << >>
    /\ category = ""
    /\ NoFetch
    /\ TagsIdle("none")

\* categorize is applied
Categorize ==
    /\ variant = "none"
    /\ category = ""
    /\ category' = categorize(rawTitle, rawLabels)
    /\ UNCHANGED << handlerVars, tagsVars, rawTitle, rawLabels, cleaned, response, outcome,
                    fetches >>

SpecCategorize == InitCategorize /\ [][Categorize]_vars

(***************************************************************************)
(* ghFetch on its own: the response is drawn from statuses on both sides   *)
(* of the 2xx range, from bodies that are JSON, empty (204, 205, 304) or   *)
(* no JSON, and from present and absent rate-limit headers                 *)
(***************************************************************************)
FetchResponses ==
    { [network |-> FALSE, status |-> 0, remaining |-> << >>, reset |-> << >>,
       text |-> "", parses |-> FALSE, json |-> "none"] }
    \cup { [network |-> TRUE, status |-> b.status, remaining |-> rem, reset |-> rst,
            text |-> b.text, parses |-> b.parses, json |-> b.json] :
               b \in { [status |-> st, text |-> "{}", parses |-> TRUE, json |-> "parsed"] :
                           st \in { 200, 201, 299 } }
                      \cup { [status |-> st, text |-> "", parses |-> FALSE, json |-> "none"] :
                                 st \in { 204, 205 } }
                      \cup { [status |-> 200, text |-> "<html>", parses |-> FALSE,
                               json |-> "none"] }
                      \cup { [status |-> st, text |-> "", parses |-> FALSE, json |-> "none"] :
                                 st \in { 304, 500 } }
                      \cup { [status |-> st, text |-> "body", parses |-> TRUE,
                               json |-> "parsed"] :
                                 st \in { 300, 400, 401, 403, 404, 429, 503 } },
               rem \in { << >>, << "0" >>, << "5" >>, << "6", "0" >> },
               rst \in { << >>, << "0" >>, << "1", "7" >> } }

InitFetch ==
    /\ NoHandler
    /\ rawTitle = << >>
    /\ rawLabels = << >>
    /\ cleaned = << >>
    /\ category = ""
    /\ response \in FetchResponses
    /\ outcome = << >>
    /\ fetches = 0
    /\ TagsIdle("none")

\* ghFetch is called: it calls fetch and awaits the response
CallFetch ==
    /\ variant = "none"
    /\ fetches = 0
    /\ fetches' = 1
    /\ UNCHANGED << handlerVars, tagsVars, rawTitle, rawLabels, cleaned, category,
                    response, outcome >>

\* the fetch settles: ghFetch resolves or rejects
Fetch ==
    /\ variant = "none"
    /\ fetches = 1
    /\ outcome = << >>
    /\ outcome' = << ghFetch(response) >>
    /\ UNCHANGED << handlerVars, tagsVars, rawTitle, rawLabels, cleaned, category,
                    response, fetches >>

SpecFetch == InitFetch /\ [][CallFetch \/ Fetch]_vars

(***************************************************************************)
(* listTags: the REST variant asks the releases API and then the tags API, *)
(* the browser variant reads the releases page and then the tags page      *)
(***************************************************************************)
\* the closing line that proposes a pair of refs
suggestion(from, to) == [kind |-> "suggestion", from |-> from, to |-> to]

\* REST: one turn of the release loop; null and "" are both falsy, and
\* published_at.split("T")[0] is what stands before the first "T"
releaseLine(r) ==
    LET s == r.published_at
        cut == { i \in 1..Len(s) : s[i] = "T" }
    IN  [kind |-> "release",
         tag |-> r.tag_name,
         name |-> IF r.name # "" /\ r.name # r.tag_name THEN << r.name >> ELSE << >>,
         date |-> << IF s = << >>
                     THEN <<"u", "n", "k", "n", "o", "w", "n">>
                     ELSE IF cut = { }
                     THEN s
                     ELSE SubSeq(s, 1, (CHOOSE i \in cut : \A j \in cut : i <= j) - 1) >>,
         pre |-> r.prerelease]

\* REST: the listing returned when the releases API gave releases
releasesListing(rs) ==
    << [kind |-> "head", of |-> "Releases"] >>
    \o [i \in 1..Len(rs) |-> releaseLine(rs[i])]
    \o (IF Len(rs) >= 2
        THEN << suggestion(rs[2].tag_name, rs[1].tag_name) >>
        ELSE << >>)

\* REST: the listing of the tags API; t.commit.sha.slice(0, 7)
tagsListing(ts) ==
    << [kind |-> "head", of |-> "Tags"] >>
    \o [i \in 1..Len(ts) |->
           [kind |-> "tag", tag |-> ts[i].name,
            sha |-> << SubSeq(ts[i].commit.sha, 1, 7) >>, date |-> << >>]]
    \o (IF Len(ts) >= 2 THEN << suggestion(ts[2].name, ts[1].name) >> ELSE << >>)

\* browser: one turn of the release loop; an absent field and an empty one
\* are both falsy
pageReleaseLine(r) ==
    [kind |-> "release",
     tag |-> r.tagName,
     name |-> IF r.name # "" /\ r.name # r.tagName THEN << r.name >> ELSE << >>,
     date |-> IF r.date # << >> THEN << r.date >> ELSE << >>,
     pre |-> r.prerelease]

\* browser: the listing returned when the releases page gave releases
pageReleasesListing(rs) ==
    << [kind |-> "head", of |-> "Releases"] >>
    \o [i \in 1..Len(rs) |-> pageReleaseLine(rs[i])]
    \o (IF Len(rs) >= 2
        THEN << suggestion(rs[2].tagName, rs[1].tagName) >>
        ELSE << >>)

\* browser: the listing of the tags page
pageTagsListing(ts) ==
    << [kind |-> "head", of |-> "Tags"] >>
    \o [i \in 1..Len(ts) |->
           [kind |-> "tag", tag |-> ts[i].tagName, sha |-> << >>,
            date |-> IF ts[i].date # << >> THEN << ts[i].date >> ELSE << >>]]

\* the longest list of releases or tags a source answers with
MaxReleases == 3

\* the releases of the API: titled, titled as its tag and pre-release,
\* untitled and unpublished
ReleasePool ==
    { [tag_name |-> "v2.0.0", name |-> "Big release", prerelease |-> FALSE,
       published_at |-> <<"2", "0", "2", "4", "-", "0", "5", "-", "0", "1", "T",
                          "1", "0", ":", "0", "0", ":", "0", "0", "Z">>],
      [tag_name |-> "v1.5.0", name |-> "v1.5.0", prerelease |-> TRUE,
       published_at |-> <<"2", "0", "2", "4", "-", "0", "2", "-", "1", "1", "T",
                          "0", "9", ":", "3", "0", ":", "0", "0", "Z">>],
      [tag_name |-> "v1.0.0", name |-> "", prerelease |-> FALSE,
       published_at |-> << >>] }

\* the tags of the API; the last one is a record without commit data
TagPool ==
    { [name |-> "v2.0.0",
       commit |-> [sha |-> <<"a", "1", "b", "2", "c", "3", "d", "4", "e", "5">>]],
      [name |-> "v1.5.0",
       commit |-> [sha |-> <<"0", "f", "9", "e", "8", "d", "7", "c", "6", "b">>]],
      [name |-> "nightly"] }

\* what a request of the REST listTags is answered with: fetch rejects, a
\* status outside 2xx, a body that is not JSON, or a list
ListResponses(pool) ==
    { [network |-> FALSE, status |-> 0, parses |-> FALSE, json |-> << >>] }
    \cup { [network |-> TRUE, status |-> st, parses |-> FALSE, json |-> << >>] :
               st \in { 200, 403, 404, 500 } }
    \cup { [network |-> TRUE, status |-> 200, parses |-> TRUE, json |-> l] :
               l \in BoundedSeq(pool, MaxReleases) }

\* the releases and tags the extraction finds on a page
PageReleasePool ==
    { [tagName |-> "v2.0.0", name |-> "Big release", prerelease |-> FALSE,
       date |-> <<"2", "0", "2", "4", "-", "0", "5", "-", "0", "1">>],
      [tagName |-> "v1.5.0", name |-> "v1.5.0", prerelease |-> TRUE,
       date |-> << >>],
      [tagName |-> "v1.0.0", name |-> "", prerelease |-> FALSE,
       date |-> <<"2", "0", "2", "3", "-", "1", "1", "-", "3", "0">>] }

\* what adk.zai.extract can answer in listTags
ListExtractOutcomes ==
    { [throws |-> TRUE, list |-> << >>] }
    \cup { [throws |-> FALSE, list |-> l] :
               l \in BoundedSeq(PageReleasePool, MaxReleases) }

\* the handler rejects with what was thrown
ListThrows(what) ==
    /\ listPc' = "thrown"
    /\ listError' = what
    /\ listLines' = listLines

\* the handler returns a string
ListReturns(ls) ==
    /\ listPc' = "done"
    /\ listLines' = ls
    /\ listError' = listError

\* listTags is called: the handler sends the releases request (REST) or
\* asks for the releases page (browser) and awaits the answer
CallListTags ==
    /\ listVariant \in { "rest", "browser" }
    /\ listPc = "start"
    /\ requests = << >>
    /\ requests' = << "releases" >>
    /\ UNCHANGED << listVariant, listPc, releasesRes, tagsRes, releases, tags,
                    listLines, listError, handlerVars, pureVars >>

\* REST: the releases request is answered; the handler rejects, returns
\* the releases, or sends the tags request
FetchReleases ==
    /\ listVariant = "rest"
    /\ listPc = "start"
    /\ requests = << "releases" >>
    /\ \E res \in ListResponses(ReleasePool) :
           /\ releasesRes' = << res >>
           /\ IF ~res.network
              THEN /\ ListThrows("fetch")
                   /\ requests' = << "releases" >>
                   /\ releases' = releases
              ELSE IF ok(res) /\ ~res.parses
              THEN /\ ListThrows("json")
                   /\ requests' = << "releases" >>
                   /\ releases' = releases
              ELSE IF ok(res) /\ Len(res.json) > 0
              THEN /\ ListReturns(releasesListing(res.json))
                   /\ requests' = << "releases" >>
                   /\ releases' = res.json
              ELSE /\ listPc' = "tags"
                   /\ requests' = << "releases", "tags" >>
                   /\ UNCHANGED << releases, listLines, listError >>
    /\ UNCHANGED << listVariant, tagsRes, tags, handlerVars, pureVars >>

\* REST: the tags request is answered
FetchTags ==
    /\ listVariant = "rest"
    /\ listPc = "tags"
    /\ \E res \in ListResponses(TagPool) :
           /\ tagsRes' = << res >>
           /\ IF ~res.network
              THEN /\ ListThrows("fetch")
                   /\ tags' = tags
              ELSE IF ~ok(res)
              THEN /\ ListReturns(<< [kind |-> "message", text |-> "Could not fetch tags"] >>)
                   /\ tags' = tags
              ELSE IF ~res.parses
              THEN /\ ListThrows("json")
                   /\ tags' = tags
              ELSE IF Len(res.json) = 0
              THEN /\ ListReturns(<< [kind |-> "message",
                                      text |-> "No tags or releases found"] >>)
                   /\ tags' = res.json
              ELSE IF \E i \in 1..Len(res.json) : "commit" \notin DOMAIN res.json[i]
              THEN /\ ListThrows("TypeError")
                   /\ tags' = res.json
              ELSE /\ ListReturns(tagsListing(res.json))
                   /\ tags' = res.json
    /\ UNCHANGED << listVariant, requests, releasesRes, releases, handlerVars,
                    pureVars >>

\* browser: the releases page is answered; the handler rejects, calls the
\* extraction, or asks for the tags page
BrowseReleasesPage ==
    /\ listVariant = "browser"
    /\ listPc = "start"
    /\ requests = << "releases" >>
    /\ \E out \in BrowseOutcomes :
           /\ releasesRes' = << out >>
           /\ IF out.throws
              THEN /\ ListThrows("browser")
                   /\ requests' = << "releases" >>
              ELSE IF contentTooShort(getPageContent(out.pages))
              THEN /\ listPc' = "tags"
                   /\ requests' = << "releases", "tags" >>
                   /\ UNCHANGED << listLines, listError >>
              ELSE /\ listPc' = "releases"
                   /\ requests' = << "releases" >>
                   /\ UNCHANGED << listLines, listError >>
    /\ UNCHANGED << listVariant, tagsRes, releases, tags, handlerVars, pureVars >>

\* browser: the extraction of the releases page answers
ExtractReleases ==
    /\ listVariant = "browser"
    /\ listPc = "releases"
    /\ \E out \in ListExtractOutcomes :
           IF out.throws
           THEN /\ ListThrows("zai")
                /\ releases' = releases
           ELSE IF Len(out.list) = 0
           THEN /\ ListReturns(<< [kind |-> "message", text |-> "No releases found"] >>)
                /\ releases' = out.list
           ELSE /\ ListReturns(pageReleasesListing(out.list))
                /\ releases' = out.list
    /\ UNCHANGED << listVariant, requests, releasesRes, tagsRes, tags, handlerVars,
                    pureVars >>

\* browser: the tags page is answered
BrowseTagsPage ==
    /\ listVariant = "browser"
    /\ listPc = "tags"
    /\ \E out \in BrowseOutcomes :
           /\ tagsRes' = << out >>
           /\ IF out.throws
              THEN ListThrows("browser")
              ELSE IF contentTooShort(getPageContent(out.pages))
              THEN ListReturns(<< [kind |-> "message",
                                   text |-> "Could not fetch releases or tags"] >>)
              ELSE /\ listPc' = "tagsExtract"
                   /\ UNCHANGED << listLines, listError >>
    /\ UNCHANGED << listVariant, requests, releasesRes, releases, tags, handlerVars,
                    pureVars >>

\* browser: the extraction of the tags page answers
ExtractTags ==
    /\ listVariant = "browser"
    /\ listPc = "tagsExtract"
    /\ \E out \in ListExtractOutcomes :
           IF out.throws
           THEN /\ ListThrows("zai")
                /\ tags' = tags
           ELSE IF Len(out.list) = 0
           THEN /\ ListReturns(<< [kind |-> "message", text |-> "No tags found"] >>)
                /\ tags' = out.list
           ELSE /\ ListReturns(pageTagsListing(out.list))
                /\ tags' = out.list
    /\ UNCHANGED << listVariant, requests, releasesRes, tagsRes, releases, handlerVars,
                    pureVars >>

InitTags ==
    /\ NoHandler
    /\ rawTitle = << >>
    /\ rawLabels = << >>
    /\ cleaned = << >>
    /\ category = ""
    /\ NoFetch
    /\ \E v \in { "rest", "browser" } : TagsIdle(v)

NextTags ==
    \/ CallListTags
    \/ FetchReleases
    \/ FetchTags
    \/ BrowseReleasesPage
    \/ ExtractReleases
    \/ BrowseTagsPage
    \/ ExtractTags

SpecTags == InitTags /\ [][NextTags]_vars

(***************************************************************************)
(* Properties                                                              *)
(***************************************************************************)
\* the handler returned a rendered changelog (not the failure message)
Rendered == pc = "done" /\ lines # failureLines

\* the indices of the lines of a kind
LinesOf(kind) == { j \in 1..Len(lines) : lines[j].kind = kind }

\* the key of the section header an entry line stands under
sectionAt(j) ==
    lines[CHOOSE k \in 1..j :
              /\ lines[k].kind = "section"
              /\ \A m \in (k + 1)..j : lines[m].kind # "section"].key

\* C1: generateChangelog never throws to its caller: whatever its upstream
\* calls answer (compare answered 404, rate-limited 403, another non-2xx, a
\* network or browser failure, a failing extraction), the handler of either
\* variant completes by returning a string.
C1_NeverThrows == pc # "thrown"

\* C2: partition completeness of the REST generateChangelog: every entry
\* carries one of the six categories, after categorize and after the
\* refinement; and in the returned changelog every entry stands on exactly one
\* entry line, under the header of its category: for each category and title
\* there are as many entry lines under that header as entries.
C2_Partition ==
    variant = "rest" =>
        /\ \A i \in 1..Len(entries) : entries[i].category \in Category
        /\ pc = "done" =>
               LET E == LinesOf("entry")
                   titles == { entries[i].title : i \in 1..Len(entries) }
                             \cup { lines[j].title : j \in E }
               IN  /\ \A j \in E : \E k \in 1..j : lines[k].kind = "section"
                   /\ \A c \in Category \cup { sectionAt(j) : j \in E } :
                          \A t \in titles :
                              Cardinality({ i \in 1..Len(entries) :
                                              /\ entries[i].category = c
                                              /\ entries[i].title = t })
                              = Cardinality({ j \in E :
                                                /\ sectionAt(j) = c
                                                /\ lines[j].title = t })

\* a refined changelog of three categories, two entries alike
C2_Witness ==
    /\ variant = "rest"
    /\ pc = "done"
    /\ zaiCalls = 1
    /\ Cardinality({ entries[i].category : i \in 1..Len(entries) }) >= 3
    /\ \E i, j \in 1..Len(entries) : i # j /\ entries[i] = entries[j]

\* two strings are equal up to the case of their letters
EqualsIgnoringCase(a, b) ==
    /\ Len(a) = Len(b)
    /\ \A i \in 1..Len(a) : toLowerCaseChar(a[i]) = toLowerCaseChar(b[i])

\* the rules of C3, in their order: the keywords a label may contain and
\* the prefixes a title may start with
RuleOrder == << "breaking", "features", "fixes", "performance", "docs" >>

RuleKeywords ==
    [breaking |-> { W_breaking },
     features |-> { W_feature, W_enhancement, W_feat },
     fixes |-> { W_bug, W_fix, W_hotfix },
     performance |-> { W_perf, W_performance },
     docs |-> { W_doc, W_documentation }]

RulePrefixes ==
    [breaking |-> { W_breaking },
     features |-> { W_feat },
     fixes |-> { W_fix },
     performance |-> { W_perf },
     docs |-> { W_doc, W_docs }]

RuleFollowers(k) ==
    WhiteSpace \cup { "(", ":" } \cup (IF k = "breaking" THEN { "!" } ELSE { })

RuleMatches(k, title, labels) ==
    \/ \E i \in 1..Len(labels) : \E w \in RuleKeywords[k] :
           \E a \in 1..(Len(labels[i]) - Len(w) + 1) :
               EqualsIgnoringCase(SubSeq(labels[i], a, a + Len(w) - 1), w)
    \/ \E p \in RulePrefixes[k] :
           /\ Len(title) > Len(p)
           /\ EqualsIgnoringCase(SubSeq(title, 1, Len(p)), p)
           /\ title[Len(p) + 1] \in RuleFollowers(k)

FirstMatch(title, labels) ==
    LET hits == { i \in 1..Len(RuleOrder) : RuleMatches(RuleOrder[i], title, labels) }
    IN  IF hits = { }
        THEN "other"
        ELSE RuleOrder[CHOOSE i \in hits : \A j \in hits : i <= j]

\* C3: categorize(title, labels) is the first rule that matches, in the order
\* breaking, features, fixes, performance, docs, else other; a rule matches
\* when a label contains one of its keywords or the title starts with its
\* prefix followed by whitespace, "(" or ":" ("!" too for breaking), letters
\* compared without their case; a rule of higher priority wins over any lower
\* one, whether each arises from a label or from the title.
C3_FirstMatchWins ==
    category # "" => category = FirstMatch(rawTitle, rawLabels)

\* "breaking: remove legacy API" labelled enhancement is breaking
C3_Witness ==
    /\ category = "breaking"
    /\ rawTitle = W_breaking \o << ":", " ", "r", "e", "m", "o", "v", "e", " ", "l",
                                  "e", "g", "a", "c", "y", " ", "A", "P", "I" >>
    /\ rawLabels = << L_enhancement >>

\* C4: title normalization is idempotent: cleanTitle(cleanTitle(x)) equals
\* cleanTitle(x) for every title x.
C4_Idempotent == Len(cleaned) = 2 => cleaned[2] = cleaned[1]

\* the twelve types of a conventional-commit token
TypeWords ==
    { W_feat, W_fix, W_docs, W_doc, W_perf, W_refactor, W_chore, W_ci, W_build,
      W_test, W_style, W_breaking }

\* nothing, or a scope in parentheses
IsOptionalScope(u) ==
    \/ u = << >>
    \/ /\ Len(u) >= 2
       /\ u[1] = "("
       /\ u[Len(u)] = ")"
       /\ \A i \in 2..(Len(u) - 1) : u[i] # ")"

\* u is a token type(scope)!, scope and "!" optional
IsToken(u) ==
    \E w \in TypeWords :
        /\ Len(u) >= Len(w)
        /\ EqualsIgnoringCase(SubSeq(u, 1, Len(w)), w)
        /\ LET r == SubSeq(u, Len(w) + 1, Len(u))
           IN  \/ IsOptionalScope(r)
               \/ /\ r # << >>
                  /\ r[Len(r)] = "!"
                  /\ IsOptionalScope(SubSeq(r, 1, Len(r) - 1))

\* the lengths of the leading tokens of s that ":" or whitespace follows
TokenEnds(s) ==
    { n \in 1..(Len(s) - 1) :
          s[n + 1] \in WhiteSpace \cup { ":" } /\ IsToken(SubSeq(s, 1, n)) }

\* where the trailing "(#digits)" of s starts, if s ends with one
BackRefStarts(s) ==
    { k \in 1..(Len(s) - 3) :
          /\ s[k] = "("
          /\ s[k + 1] = "#"
          /\ s[Len(s)] = ")"
          /\ \A i \in (k + 2)..(Len(s) - 1) : s[i] \in Digit }

\* the transformation C6 describes: one leading token with the ":" or the
\* whitespace after it removed, one trailing "(#digits)" removed, trimmed,
\* first character upper-cased
Reference(raw) ==
    LET a == IF TokenEnds(raw) = { }
             THEN raw
             ELSE SubSeq(raw, (CHOOSE n \in TokenEnds(raw) : TRUE) + 2, Len(raw))
        b == trim(a)
        c == IF BackRefStarts(b) = { }
             THEN b
             ELSE trim(SubSeq(b, 1, (CHOOSE k \in BackRefStarts(b) : TRUE) - 1))
    IN  IF c = << >> THEN << >> ELSE << toUpperCaseChar(c[1]) >> \o Tail(c)

\* C6: cleanTitle(raw) is the reference transformation: one leading token
\* type(scope)! is removed only when ":" or whitespace follows it, one
\* trailing "(#digits)" is removed, the result is trimmed and its first
\* character upper-cased, every other character left as it is.
C6_Reference == Len(cleaned) >= 1 => cleaned[1] = Reference(rawTitle)

\* C5: every title stored in an entry of the changelog is non-empty, begins
\* with an upper-cased character, does not begin with a conventional-commit
\* type followed by ":" or whitespace, and does not end with a "(#digits)"
\* back-reference, whatever commit message or pull-request title the
\* comparison source returns.
C5_CleanTitles ==
    variant = "rest" =>
        \A i \in 1..Len(entries) :
            LET t == entries[i].title
            IN  /\ t # << >>
                /\ t[1] = toUpperCaseChar(t[1])
                /\ ~\E w \in TypeWords :
                       /\ Len(t) > Len(w)
                       /\ EqualsIgnoringCase(SubSeq(t, 1, Len(w)), w)
                       /\ t[Len(w) + 1] \in WhiteSpace \cup { ":" }
                /\ BackRefStarts(t) = { }

\* the fixed order of the sections
FixedOrder == << "breaking", "features", "fixes", "performance", "docs", "other" >>

OrderIndex(c) == CHOOSE i \in 1..Len(FixedOrder) : FixedOrder[i] = c

\* the number of entries of a category handed to the rendering
CountOf(c) ==
    IF variant = "rest"
    THEN Cardinality({ i \in 1..Len(entries) : entries[i].category = c })
    ELSE Len(data[c])

\* C7: in every changelog rendered by either variant the section headers
\* stand in the fixed order breaking, features, fixes, performance, docs,
\* other, whatever the order of the entries; each header stands at most once,
\* and exactly when its category has an entry.
C7_SectionOrder ==
    Rendered =>
        LET S == LinesOf("section")
        IN  /\ \A j \in S : lines[j].key \in Category
            /\ \A a \in S : \A b \in S :
                   a < b => OrderIndex(lines[a].key) < OrderIndex(lines[b].key)
            /\ \A c \in Category :
                   (\E j \in S : lines[j].key = c) <=> CountOf(c) > 0

\* a REST changelog whose entries came in another order than the sections
C7_Witness ==
    /\ variant = "rest"
    /\ Rendered
    /\ Cardinality(LinesOf("section")) >= 2
    /\ \E i \in 1..Len(entries) : \E j \in 1..Len(entries) :
           /\ i < j
           /\ OrderIndex(entries[i].category) > OrderIndex(entries[j].category)

\* the number of entries handed to the rendering
TotalEntries ==
    IF variant = "rest"
    THEN Len(entries)
    ELSE Len(data.breaking) + Len(data.features) + Len(data.fixes)
         + Len(data.performance) + Len(data.docs) + Len(data.other)

\* the footer: the rule, then the compare link, then the stats line last,
\* after every header, entry line and placeholder
FooterEmitted ==
    \E r \in LinesOf("rule") : \E c \in LinesOf("compare") :
        /\ r < c
        /\ \A j \in LinesOf("section") \cup LinesOf("entry")
                    \cup LinesOf("placeholder") : j < r
        /\ lines[Len(lines)].kind = "stats"
        /\ c < Len(lines)

\* C8: with no entry at all the rendered changelog holds exactly one
\* placeholder line and no section header; with an entry it holds no
\* placeholder line; the footer (rule, compare link, stats) is emitted in
\* both cases.
C8_EmptyPlaceholder ==
    Rendered =>
        /\ TotalEntries = 0 =>
               /\ Cardinality(LinesOf("placeholder")) = 1
               /\ LinesOf("section") = { }
        /\ TotalEntries > 0 => LinesOf("placeholder") = { }
        /\ FooterEmitted

\* a REST range of merge commits only: commits, yet no entry
C8_Witness ==
    /\ variant = "rest"
    /\ Rendered
    /\ Len(commits) > 0
    /\ entries = << >>
    /\ LinesOf("placeholder") # { }

\* the handles the contributors line is rendered from
ContributorSource == IF variant = "rest" THEN contributors ELSE data.contributors

\* the characters of a GitHub login: the hyphen, the digits and the letters,
\* in ascending order (that of their code points, case dropped)
LoginAlphabet ==
    << "-",
       "0", "1", "2", "3", "4", "5", "6", "7", "8", "9",
       "a", "b", "c", "d", "e", "f", "g", "h", "i", "j", "k", "l", "m",
       "n", "o", "p", "q", "r", "s", "t", "u", "v", "w", "x", "y", "z" >>

\* the handle is written in the characters of a login
IsLogin(h) ==
    \A i \in 1..Len(h) :
        \E k \in 1..Len(LoginAlphabet) : LoginAlphabet[k] = toLowerCaseChar(h[i])

\* the characters of a login as their places in the alphabet, case dropped
AlphaKey(h) == [i \in 1..Len(h) |-> AlphaIndex(LoginAlphabet, toLowerCaseChar(h[i]))]

\* x is before y, or equal to it, in the order of the dictionary
DictionaryLeq(x, y) ==
    \E k \in 0..Len(x) :
        /\ k <= Len(y)
        /\ \A i \in 1..k : x[i] = y[i]
        /\ k = Len(x) \/ (k < Len(y) /\ x[k + 1] < y[k + 1])

Occurrences(seq, x) == Cardinality({ i \in 1..Len(seq) : seq[i] = x })

\* the handles, each after an "@", with ", " between them
AtList(h) ==
    LET F[i \in 1..Len(h)] ==
            IF i = 1 THEN << "@" >> \o h[1]
            ELSE F[i - 1] \o << ",", " ", "@" >> \o h[i]
    IN  IF Len(h) = 0 THEN << >> ELSE F[Len(h)]

    /\ \E j \in LinesOf("contributors") :
           lines[j].text = << "@", "A", "l", "i", "c", "e", ",", " ",
                              "@", "b", "o", "b", ",", " ",
                              "@", "z", "a", "c", "k" >>

\* an entry derived from a pull request was rendered
PRDerived ==
    IF variant = "rest"
    THEN \E i \in 1..Len(entries) : "prNumber" \in DOMAIN entries[i]
    ELSE \E c \in Category : \E i \in 1..Len(data[c]) :
             "prNumber" \in DOMAIN data[c][i]

\* C10: the footer ends with a stats line that carries the commit count, and
\* carries a pull-request count exactly when entries derived from pull
\* requests exist: the commit count alone when no entry is derived from one.
C10_Stats ==
    Rendered =>
        LET last == lines[Len(lines)]
        IN  /\ last.kind = "stats"
            /\ "commits" \in DOMAIN last
            /\ ("pulls" \in DOMAIN last) <=> PRDerived

\* the entries of a category in the order they were supplied to rendering
SuppliedTo(c) ==
    IF variant = "rest"
    THEN SelectSeq(entries, LAMBDA e : e.category = c)
    ELSE data[c]

\* the text of an entry: the cleanTitle, or the description extracted
TextOf(e) == IF "title" \in DOMAIN e THEN e.title ELSE e.description

\* the indices of the entry lines under the header of a category, ascending
LinesUnder(c) ==
    LET J == { j \in LinesOf("entry") : sectionAt(j) = c }
    IN  [k \in 1..Cardinality(J) |->
            CHOOSE j \in J : Cardinality({ m \in J : m < j }) = k - 1]

\* C11: each rendered entry line is "- " and the text of its entry, followed
\* by the link to the pull request exactly when the entry has a prNumber,
\* whatever its value (0 included), followed by " by @author" exactly when
\* the entry has an author, whatever its value.
C11_EntryLine ==
    Rendered =>
        \A c \in Category :
            /\ Len(LinesUnder(c)) = Len(SuppliedTo(c))
            /\ \A k \in 1..Len(SuppliedTo(c)) :
                   LET e == SuppliedTo(c)[k]
                       l == lines[LinesUnder(c)[k]]
                   IN  /\ l.title = TextOf(e)
                       /\ l.pr = IF "prNumber" \in DOMAIN e
                                 THEN << e.prNumber >> ELSE << >>
                       /\ l.by = IF "author" \in DOMAIN e
                                 THEN << e.author >> ELSE << >>

\* C12: the entry lines under one header stand in the order their entries
\* were supplied in: grouping and rendering never reorder the entries of one
\* category, also after the refinement has moved entries out of "other".
C12_StableOrder ==
    Rendered =>
        \A c \in Category :
            [k \in 1..Len(LinesUnder(c)) |-> lines[LinesUnder(c)[k]].title]
            = [k \in 1..Len(SuppliedTo(c)) |-> TextOf(SuppliedTo(c)[k])]

\* a refined REST changelog: an entry moved out of "other" stands before an
\* entry of another title that was in the category from the start
C12_Witness ==
    /\ variant = "rest"
    /\ Rendered
    /\ zaiCalls = 1
    /\ \E c \in Category \ { "other" } :
           \E k \in 1..(Len(SuppliedTo(c)) - 1) :
               /\ SuppliedTo(c)[k].title # SuppliedTo(c)[k + 1].title
               /\ categorize(SuppliedTo(c)[k].title, << >>) = "other"
               /\ lines[LinesUnder(c)[k]].title = SuppliedTo(c)[k].title

\* C13: the refinement is best-effort in the REST generateChangelog: once
\* the call of the classification collaborator has been answered, also by a
\* failure, the handler has returned the rendered changelog.
C13_RefineBestEffort ==
    (variant = "rest" /\ zaiCalls >= 1 /\ pc # "refine") => Rendered

\* more than 60% of the entries are "other", and there are more than five
Threshold(es) ==
    LET others == Cardinality({ i \in 1..Len(es) : es[i].category = "other" })
    IN  5 * others > 3 * Len(es) /\ Len(es) > 5

\* C14: the REST generateChangelog calls the classification collaborator
\* exactly when strictly more than 60% of the entries are "other" and there
\* are strictly more than five entries (ten entries, seven "other": called;
\* ten entries, five or six "other": not called; five entries, all "other":
\* not called), and at most once.
C14_RefineThreshold ==
    variant = "rest" =>
        /\ zaiCalls <= 1
        /\ pc \in { "start", "lookup" } => zaiCalls = 0
        /\ pc = "refine" => zaiCalls = 1 /\ Threshold(entries)
        /\ (pc = "done" /\ zaiCalls = 0) => ~Threshold(entries)

\* ten entries, seven of them "other": the collaborator has been called
C14_Witness ==
    /\ variant = "rest"
    /\ pc = "refine"
    /\ zaiCalls = 1
    /\ Len(entries) = 10
    /\ Cardinality({ i \in 1..Len(entries) : entries[i].category = "other" }) = 7

\* C15: the refinement changes only the category of entries that are "other"
\* and whose title is a title of the returned classification, to a category
\* returned for that title; an entry of another category, and an "other"
\* entry whose title was not returned, keeps its category; no title, prNumber
\* or author changes, and no entry is added or removed.
C15_RefineFrame ==
    [][(variant = "rest" /\ pc = "refine" /\ pc' = "done") =>
           /\ Len(entries') = Len(entries)
           /\ \A i \in 1..Len(entries) :
                  LET a == entries[i]
                      b == entries'[i]
                      returnedFor == { refined'[k].category :
                                         k \in { k \in 1..Len(refined') :
                                                   refined'[k].title = a.title } }
                  IN  /\ DOMAIN b = DOMAIN a
                      /\ \A f \in DOMAIN a \ { "category" } : b[f] = a[f]
                      /\ IF a.category = "other" /\ returnedFor # { }
                         THEN b.category \in returnedFor
                         ELSE b.category = a.category]_vars

\* a classification that named an "other" entry, which moved, and an entry of
\* another category, which stayed, while an "other" entry it did not name
\* stayed "other"
C15_Witness ==
    /\ variant = "rest"
    /\ pc = "done"
    /\ zaiCalls = 1
    /\ \E i \in 1..Len(entries) : \E k \in 1..Len(refined) :
           /\ refined[k].title = entries[i].title
           /\ entries[i].category = refined[k].category
           /\ entries[i].category \notin { "other", "performance" }
    /\ \E i \in 1..Len(entries) : \E k \in 1..Len(refined) :
           /\ refined[k].title = entries[i].title
           /\ entries[i].category = "performance"
           /\ refined[k].category # "performance"
    /\ \E i \in 1..Len(entries) :
           /\ entries[i].category = "other"
           /\ \A k \in 1..Len(refined) : refined[k].title # entries[i].title

\* the pull requests whose lookup was answered 2xx
Resolved ==
    { n \in DOMAIN settled :
        /\ settled[n].response.network
        /\ settled[n].response.status \in 200..299
        /\ settled[n].response.parses }

\* the pull requests that resolved and are merged
ResolvedMerged == { n \in Resolved : settled[n].response.json.merged }

\* the lookups are over: the REST handler went on to build the entries
LookupsOver ==
    /\ variant = "rest"
    /\ \/ pc \in { "refine", "done" }
       \/ pc = "thrown" /\ zaiCalls = 1

\* the numbers of nums up to index k that resolved merged, in the order of nums
MergedUpTo(k) ==
    LET J == { i \in 1..k : nums[i] \in ResolvedMerged }
    IN  [m \in 1..Cardinality(J) |->
            nums[CHOOSE i \in J : Cardinality({ j \in J : j < i }) = m - 1]]

\* C16: a failing pull-request lookup is never fatal: no lookup is made
\* twice, the handler does not reject because of a lookup, the pull requests
\* pushed are exactly the merged ones that resolved, of the same batch and of
\* the earlier and later batches, in the order of their numbers, and when
\* every lookup failed the entries are those of the commit-only list.
C16_LookupFailures ==
    variant = "rest" =>
        /\ inflight \cap DOMAIN settled = { }
        /\ (pc = "thrown" /\ DOMAIN settled # { }) => zaiCalls = 1
        /\ pc = "lookup" =>
               [i \in 1..Len(prs) |-> prs[i].number] = MergedUpTo(batchStart)
        /\ LookupsOver =>
               /\ DOMAIN settled = Range(nums)
               /\ [i \in 1..Len(prs) |-> prs[i].number] = MergedUpTo(Len(nums))
               /\ Resolved = { } =>
                      /\ \A i \in 1..Len(entries) : "prNumber" \notin DOMAIN entries[i]
                      /\ Len(entries) = Cardinality({ i \in 1..Len(commits) :
                             SubSeq(commits[i].message, 1, 6)
                             # << "M", "e", "r", "g", "e", " " >> })

\* seventeen lookups in two batches: in the first all fail but one, in the
\* second one fails and one succeeds, and both successes are rendered
C16_Witness ==
    /\ variant = "rest"
    /\ Rendered
    /\ Len(nums) > BatchSize
    /\ [i \in 1..Len(prs) |-> prs[i].number] = << 3, 2 >>
    /\ settled[4].response.status = 404
    /\ settled[1].response.status \in { 403, 404 }
    /\ Cardinality({ j \in LinesOf("entry") : lines[j].pr # << >> }) = 2

\* the pull requests that resolved but are not merged
Unmerged == Resolved \ ResolvedMerged

\* the author of a pull request as the response gives it
AuthorOf(n) ==
    IF settled[n].response.json.login # << >>
    THEN settled[n].response.json.login
    ELSE << "u", "n", "k", "n", "o", "w", "n" >>

\* C17: a pull request that resolved without merged_at contributes nothing:
\* no entry carries its number, the contributors are those of the merged pull
\* requests (of the commits when no merged one resolved), and the stats line
\* counts the merged pull requests only.
C17_UnmergedExcluded ==
    LookupsOver =>
        /\ \A i \in 1..Len(entries) :
               "prNumber" \in DOMAIN entries[i] => entries[i].prNumber \notin Unmerged
        /\ Range(contributors) =
               IF ResolvedMerged # { }
               THEN { AuthorOf(n) : n \in ResolvedMerged }
               ELSE { commits[i].authorLogin :
                        i \in { i \in 1..Len(commits) :
                                  /\ commits[i].authorLogin # << >>
                                  /\ SubSeq(commits[i].message, 1, 6)
                                     # << "M", "e", "r", "g", "e", " " >> } }
        /\ Rendered => lines[Len(lines)].pulls = Cardinality(ResolvedMerged)

\* an unmerged pull request of zack next to a merged one of Alice: zack is
\* no contributor and one pull request is counted
C17_Witness ==
    /\ variant = "rest"
    /\ Rendered
    /\ \E n \in Unmerged : AuthorOf(n) = H_zack
    /\ \E n \in ResolvedMerged : AuthorOf(n) = H_Alice
    /\ contributors = << H_Alice >>
    /\ lines[Len(lines)].pulls = 1

\* the numbers a commit message references: each "#" with its run of digits
RefsOf(msg) ==
    LET runs == { r \in (1..Len(msg)) \X (1..Len(msg)) :
                    /\ r[1] < r[2]
                    /\ msg[r[1]] = "#"
                    /\ \A k \in (r[1] + 1)..r[2] : msg[k] \in Digit
                    /\ r[2] = Len(msg) \/ msg[r[2] + 1] \notin Digit }
    IN  { parseInt(SubSeq(msg, r[1] + 1, r[2])) : r \in runs }

\* the first line of the message begins with "Merge "
IsMergeCommit(msg) == SubSeq(firstLine(msg), 1, 6) = << "M", "e", "r", "g", "e", " " >>

\* C18: a pull request supersedes only the commits it covers: when a merged
\* pull request resolved, every commit of the range that is no merge commit
\* and references no resolved merged pull request is still represented by an
\* entry of its own.
C18_SupersedesCovered ==
    (variant = "rest" /\ Rendered /\ ResolvedMerged # { }) =>
        \A i \in 1..Len(compareCommits) :
            LET msg == compareCommits[i].message
            IN  (~IsMergeCommit(msg) /\ RefsOf(msg) \cap ResolvedMerged = { }) =>
                    \E k \in 1..Len(entries) :
                        /\ "prNumber" \notin DOMAIN entries[k]
                        /\ entries[k].title = cleanTitle(firstLine(msg))

\* C19: the entries are built from the commits exactly when no merged pull
\* request resolved: then there is one entry for each commit whose first line
\* does not begin with "Merge ", in the order of the commits, none with a
\* prNumber; otherwise there is exactly one entry for each resolved merged
\* pull request, each with its prNumber. The two kinds never stand together.
C19_CommitFallback ==
    LookupsOver =>
        LET kept == SelectSeq(commits,
                        LAMBDA c : SubSeq(c.message, 1, 6)
                                   # << "M", "e", "r", "g", "e", " " >>)
        IN  IF ResolvedMerged = { }
            THEN /\ Len(entries) = Len(kept)
                 /\ \A i \in 1..Len(entries) :
                        /\ "prNumber" \notin DOMAIN entries[i]
                        /\ entries[i].title = cleanTitle(kept[i].message)
            ELSE /\ Len(entries) = Cardinality(ResolvedMerged)
                 /\ \A i \in 1..Len(entries) : "prNumber" \in DOMAIN entries[i]
                 /\ { entries[i].prNumber : i \in 1..Len(entries) } = ResolvedMerged

\* references were looked up, no merged pull request resolved, and the range
\* holds a merge commit, which has no entry, next to a commit that has one
C19_Witness ==
    /\ variant = "rest"
    /\ Rendered
    /\ nums # << >>
    /\ ResolvedMerged = { }
    /\ \E i \in 1..Len(commits) :
           SubSeq(commits[i].message, 1, 6) = << "M", "e", "r", "g", "e", " " >>
    /\ Len(entries) = 1
    /\ "prNumber" \notin DOMAIN entries[1]

\* the number a run of decimal digits writes
DecimalOf(ds) ==
    LET F[i \in 0..Len(ds)] ==
            IF i = 0 THEN 0
            ELSE 10 * F[i - 1]
                 + (CHOOSE d \in 0..9 :
                        << "0", "1", "2", "3", "4", "5", "6", "7", "8", "9" >>[d + 1]
                        = ds[i])
    IN  F[Len(ds)]

\* C20: ghFetch maps a response to exactly one outcome after one fetch: a
\* 2xx response to the parsed body; a 404 to the not-found error (repo and
\* refs); a 403 whose x-ratelimit-remaining is 0 to the rate-limit error with
\* the reset instant, or "unknown" when the reset header is absent; every
\* other response, a 403 that is no rate limit included, to the error that
\* carries the status and the body.
C20_FetchOutcome ==
    (outcome # << >> /\ response.network) =>
        LET o == outcome[1]
            st == response.status
        IN  /\ fetches = 1
            /\ Len(outcome) = 1
            /\ IF st >= 200 /\ st <= 299
               THEN o = [ok |-> TRUE, value |-> response.json]
               ELSE /\ ~o.ok
                    /\ DOMAIN o = { "ok", "error" }
                    /\ IF st = 404
                       THEN /\ o.error.kind = "not_found"
                            /\ o.error.causes = { "repo", "refs" }
                       ELSE IF st = 403 /\ response.remaining = << "0" >>
                       THEN /\ o.error.kind = "rate_limit"
                            /\ o.error.at =
                                   IF response.reset = << >>
                                   THEN << >>
                                   ELSE << 1000 * DecimalOf(response.reset) >>
                       ELSE /\ o.error.kind = "api"
                            /\ o.error.status = st
                            /\ o.error.text = response.text

\* the releases source of listTags was unavailable or yielded no release
ReleasesFailed ==
    /\ listPc \in { "done", "thrown" }
    /\ IF listVariant = "rest"
       THEN LET res == releasesRes[1]
            IN  ~res.network \/ ~ok(res) \/ ~res.parses \/ Len(res.json) = 0
       ELSE LET out == releasesRes[1]
            IN  \/ out.throws
                \/ contentTooShort(getPageContent(out.pages))
                \/ /\ Len(requests) = 1
                   /\ \/ listError = "zai"
                      \/ listPc = "done" /\ releases = << >>

\* listTags returned one of its messages saying that nothing was found
NothingFound ==
    /\ listPc = "done"
    /\ listLines[1].kind = "message"
    /\ listLines[1].text \in { "No tags or releases found", "No releases found",
                               "No tags found" }

\* the tags request was answered with a list of tags
TagsListed ==
    /\ tagsRes # << >>
    /\ IF listVariant = "rest"
       THEN tagsRes[1].network /\ ok(tagsRes[1]) /\ tagsRes[1].parses
       ELSE listPc = "done" /\ ~tagsRes[1].throws
            /\ ~contentTooShort(getPageContent(tagsRes[1].pages))

\* C21: listTags falls back to the tag listing whenever the releases source
\* is unavailable or yields no release: in both variants such a releases
\* request is followed by a tags request, the tags are rendered if there are
\* any, and a message saying that nothing was found is returned only after
\* the tag listing was tried and was empty.
C21_TagsFallback ==
    /\ ReleasesFailed => requests = << "releases", "tags" >>
    /\ (ReleasesFailed /\ Len(tags) > 0) =>
           /\ listPc = "done"
           /\ listLines[1] = [kind |-> "head", of |-> "Tags"]
    /\ NothingFound =>
           /\ requests = << "releases", "tags" >>
           /\ TagsListed
           /\ tags = << >>

\* the release and tag lines of a listing, in order
ListedEntries ==
    SelectSeq(listLines, LAMBDA l : l.kind \in { "release", "tag" })

\* C22: whenever listTags renders a listing of at least two entries, from
\* the releases or from the tags fallback, the output ends with one
\* suggestion line naming the second entry as the from-ref and the first as
\* the to-ref; a listing of fewer than two entries has no suggestion line.
C22_Suggestion ==
    (listPc = "done" /\ listLines[1].kind = "head") =>
        LET es == ListedEntries
            at == { j \in 1..Len(listLines) : listLines[j].kind = "suggestion" }
        IN  IF Len(es) >= 2
            THEN /\ at = { Len(listLines) }
                 /\ listLines[Len(listLines)] = suggestion(es[2].tag, es[1].tag)
            ELSE at = { }

\* C23: listTags never propagates an exception: whatever fails underneath
\* (a request rejected by the network or the browser, a status outside 2xx,
\* a body that does not parse, a tag record without commit data, a failing
\* extraction), the handler returns a string.
C23_ListNeverThrows == listPc # "thrown"

\* the tag name, display name, date and pre-release flag of a release as the
\* source of the variant gave it
ReleaseFacts(r) ==
    IF listVariant = "rest"
    THEN [tag |-> r.tag_name, name |-> r.name, pre |-> r.prerelease,
          date |-> IF r.published_at = << >>
                   THEN << >>
                   ELSE SubSeq(r.published_at, 1, 10)]
    ELSE [tag |-> r.tagName, name |-> r.name, pre |-> r.prerelease,
          date |-> r.date]

\* C24: each release line of listTags is the tag name, followed by the
\* quoted display name if and only if there is one and it differs from the
\* tag name, by the date if and only if it is known (no date segment at all
\* otherwise), and by the pre-release mark if and only if the release is
\* flagged; there is one line per release, in source order.
C24_ReleaseLines ==
    (listPc = "done" /\ listLines[1] = [kind |-> "head", of |-> "Releases"]) =>
        LET ls == SelectSeq(listLines, LAMBDA l : l.kind = "release")
        IN  /\ Len(ls) = Len(releases)
            /\ \A i \in 1..Len(ls) :
                   LET f == ReleaseFacts(releases[i])
                   IN  /\ ls[i].tag = f.tag
                       /\ ls[i].name = IF f.name # "" /\ f.name # f.tag
                                       THEN << f.name >>
                                       ELSE << >>
                       /\ ls[i].date = IF f.date # << >> THEN << f.date >> ELSE << >>
                       /\ ls[i].pre = f.pre

\* the lookups started so far: those in flight and those that settled
Started == inflight \cup DOMAIN settled

\* the numbers of the batches up to and including the one that begins
\* after index i
UpToBatch(i) ==
    { nums[k] : k \in 1..(IF i + BatchSize < Len(nums) THEN i + BatchSize
                          ELSE Len(nums)) }

\* C25: the pull-request lookups run in bounded batches: at every moment of
\* a REST generateChangelog at most 15 lookups are in flight, the lookups of
\* a batch are started only after every lookup of the batches before it has
\* settled, and the entries are built only after the last batch has settled.
C25_BoundedBatches ==
    variant = "rest" =>
        /\ Cardinality(inflight) <= 15
        /\ pc = "lookup" =>
               /\ inflight # { }
               /\ Started = UpToBatch(batchStart)
               /\ \A k \in 1..batchStart : nums[k] \in DOMAIN settled \ inflight
               /\ entries = << >>
        /\ (pc # "lookup" /\ pc # "start") =>
               /\ inflight = { }
               /\ (pc # "thrown" \/ zaiCalls = 1) => DOMAIN settled = Range(nums)

\* the second batch of a range of seventeen references is in flight, after
\* the fifteen lookups of the first batch settled
C25_Witness ==
    /\ variant = "rest"
    /\ pc = "lookup"
    /\ Len(nums) = 17
    /\ batchStart = 15
    /\ Cardinality(inflight) = 2
    /\ Cardinality(DOMAIN settled) = 15

\* the places of the references: << i, p >> when the message of commit i
\* holds a "#" followed by a digit at p
RefPlaces ==
    { ip \in UNION { { << i, p >> : p \in 1..(Len(compareCommits[i].message) - 1) } :
                       i \in 1..Len(compareCommits) } :
        /\ compareCommits[ip[1]].message[ip[2]] = "#"
        /\ compareCommits[ip[1]].message[ip[2] + 1] \in Digit }

\* the number referenced at a place: the whole run of digits
NumberAt(ip) ==
    LET msg == compareCommits[ip[1]].message
    IN  parseInt(SubSeq(msg, ip[2] + 1, skipClass(msg, ip[2] + 1, Digit) - 1))

\* where pull request n is referenced first: the least 1000 * i + p over the
\* places << i, p >> that reference n
FirstRef(n) ==
    LET keys == { 1000 * ip[1] + ip[2] : ip \in { q \in RefPlaces : NumberAt(q) = n } }
    IN  CHOOSE k \in keys : \A j \in keys : k <= j

\* the merged pull requests that resolved, by their first reference
ByFirstRef ==
    LET key == [n \in ResolvedMerged |-> FirstRef(n)]
    IN  [k \in 1..Cardinality(ResolvedMerged) |->
            CHOOSE n \in ResolvedMerged :
                Cardinality({ m \in ResolvedMerged : key[m] < key[n] }) = k - 1]

\* C26: the rendered changelog does not depend on the order in which the
\* lookups complete: it is determined by the compare response and by what
\* each pull-request lookup was answered with, and the entries of the pull
\* requests stand in the order of the first "#N" reference in the commits.
C26_OrderIndependent ==
    (variant = "rest" /\ Rendered) =>
        LET order == ByFirstRef
            P == [k \in 1..Len(order) |->
                     [number |-> order[k],
                      title |-> settled[order[k]].response.json.title,
                      author |-> AuthorOf(order[k]),
                      labels |-> settled[order[k]].response.json.labels]]
            es == applyRefined(buildEntries(P, commits), refined)
        IN  /\ prs = P
            /\ order # << >> =>
                   [k \in 1..Len(entries) |-> entries[k].prNumber] = order
            /\ entries = es
            /\ lines = render(toRef, entries, buildContributors(prs, commits), total,
                              Len(commits), Len(order))

\* two merged pull requests are rendered, the one with the greater number
\* first because it is referenced first; their lookups were in flight together
C26_Witness ==
    /\ variant = "rest"
    /\ Rendered
    /\ Len(prs) = 2
    /\ prs[1].number > prs[2].number
    /\ Len(nums) = 2
    /\ \A j \in LinesOf("entry") : lines[j].pr # << >>

\* C27: each pull-request number referenced in the range is looked up
\* exactly once, however many commits and however many places of one message
\* reference it; each merged pull request that resolved yields exactly one
\* entry, and the pull-request count of the stats line is the number of
\* entries of pull requests rendered.
C27_LookedUpOnce ==
    (variant = "rest" /\ pc # "start") =>
        /\ \A i, j \in 1..Len(nums) : nums[i] = nums[j] => i = j
        /\ Range(nums) = { NumberAt(ip) : ip \in RefPlaces }
        /\ inflight \cap DOMAIN settled = { }
        /\ Started \subseteq Range(nums)
        /\ LookupsOver => DOMAIN settled = Range(nums)
        /\ Rendered =>
               /\ \A n \in ResolvedMerged :
                      /\ Cardinality({ k \in 1..Len(entries) :
                                         entries[k].prNumber = n }) = 1
                      /\ Cardinality({ j \in LinesOf("entry") :
                                         lines[j].pr = << n >> }) = 1
               /\ lines[Len(lines)].pulls =
                      Cardinality({ j \in LinesOf("entry") : lines[j].pr # << >> })

\* pull request 3 is referenced twice in the message of the first commit; it
\* resolved merged, as did another one, and it has one entry
C27_Witness ==
    /\ variant = "rest"
    /\ Rendered
    /\ Cardinality({ ip \in RefPlaces : NumberAt(ip) = 3 /\ ip[1] = 1 }) = 2
    /\ 3 \in ResolvedMerged
    /\ Cardinality({ k \in 1..Len(entries) : entries[k].prNumber = 3 }) = 1
    /\ lines[Len(lines)].pulls >= 2

\* the handles rendered as " by @X" on the entry lines
RenderedAuthors ==
    { lines[j].by[1] : j \in { k \in LinesOf("entry") : lines[k].by # << >> } }

\* the handles of the Contributors line, none when there is no such line
RenderedContributors ==
    UNION { Range(lines[j].handles) : j \in LinesOf("contributors") }

\* C28: in the REST generateChangelog every handle rendered as " by @X" on
\* an entry line stands in the Contributors line, and every handle of the
\* Contributors line is the author of a rendered entry, for entries of pull
\* requests and for entries of commits (also commits without a GitHub login,
\* and ranges with merge commits).
C28_AuthorsConsistent ==
    (variant = "rest" /\ Rendered) =>
        /\ RenderedAuthors \subseteq RenderedContributors
        /\ RenderedContributors \subseteq RenderedAuthors

\* C29: the Contributors line never lists a handle twice: in both variants
\* of generateChangelog each author handle stands exactly once in the line,
\* whatever the pull requests, the commits or the contributors array of the
\* extraction are.
C29_ContributorsOnce ==
    Rendered =>
        \A j \in LinesOf("contributors") :
            \A a, b \in 1..Len(lines[j].handles) :
                lines[j].handles[a] = lines[j].handles[b] => a = b

\* C30: the short-content guard of the browser generateChangelog: when the
\* content of the compare page is empty or shorter than 100 characters the
\* handler returns the failure message naming the repository and both refs
\* and never calls the extraction; when it has 100 characters or more the
\* extraction is called exactly once and what it returns is rendered by
\* formatMarkdown.
C30_ShortContentGuard ==
    (variant = "browser" /\ pc # "start" /\ error.kind # "browser") =>
        IF content < 100
        THEN /\ pc = "done"
             /\ zaiCalls = 0
             /\ Len(lines) = 1
             /\ lines[1].kind = "failure"
             /\ lines[1].causes = { "repo", "refs" }
        ELSE /\ zaiCalls = 1
             /\ pc \in { "extract", "done", "thrown" }
             /\ pc = "thrown" => error.kind = "zai"
             /\ pc = "done" =>
                    /\ lines = formatMarkdown(toRef, data)
                    /\ lines[1].kind # "failure"

\* a page of exactly 100 characters was handed to the extraction, whose
\* answer was rendered
C30_Witness ==
    /\ variant = "browser"
    /\ content = 100
    /\ pc = "done"
    /\ zaiCalls = 1
    /\ lines[Len(lines)].kind = "stats"
    /\ data.features # << >>

====
